---- MODULE Spec2Model ----
(***************************************************************************)
(* Model of the ai2mysql MCP servers.                                      *)
(*                                                                         *)
(* Three binaries of the repository are modelled, selected by `binary`:    *)
(*   "jsonrpc" : cmd/ai2mysql-mcp-server/mcp_server.go, the hand-written   *)
(*               line-delimited JSON-RPC loop on top of pkg/db.DBManager;  *)
(*   "server"  : cmd/server/mcp_server.go, the earlier version of that     *)
(*               loop (methods mcp/initialize and mcp/callTool, no logger);*)
(*   "gomcp"   : the go-mcp based server (handleQuery / handleExecute      *)
(*               registered with srv.RegisterTool).                        *)
(*                                                                         *)
(* A string is a sequence of one-character strings.  A JSON value is a     *)
(* record with a tag field `t`.  A nil interface / nil pointer is Nil (for *)
(* ids) or NilV (for structured values).                                   *)
(***************************************************************************)
EXTENDS Integers, Sequences, FiniteSets, TLC

VARIABLES binary, perm, configured, connections, opened, startErr,
          logEnabled, writerOK, pc, lastRead, dropped, runErr, exitStatus,
          request, handler, resp, logged, writes, gwerr, calls, ret,
          cursor, rowset, environ, configFile, loaded, stdin

vars == <<binary, perm, configured, connections, opened, startErr,
          logEnabled, writerOK, pc, lastRead, dropped, runErr, exitStatus,
          request, handler, resp, logged, writes, gwerr, calls, ret,
          cursor, rowset, environ, configFile, loaded, stdin>>

\* ------------------------------------------------------------------ bounds
\* Largest number of white-space characters put in front of a statement.
MaxLead == 1

\* ------------------------------------------------------------- characters
Uppers == <<"A","B","C","D","E","F","G","H","I","J","K","L","M",
            "N","O","P","Q","R","S","T","U","V","W","X","Y","Z">>

Lowers == <<"a","b","c","d","e","f","g","h","i","j","k","l","m",
            "n","o","p","q","r","s","t","u","v","w","x","y","z">>

\* unicode.IsSpace restricted to the ASCII characters the model uses
Spaces == {" ", "\t", "\n", "\r"}

UpperCh(c) ==
  IF \E i \in 1..Len(Lowers) : Lowers[i] = c
    THEN Uppers[CHOOSE i \in 1..Len(Lowers) : Lowers[i] = c]
    ELSE c

LowerCh(c) ==
  IF \E i \in 1..Len(Uppers) : Uppers[i] = c
    THEN Lowers[CHOOSE i \in 1..Len(Uppers) : Uppers[i] = c]
    ELSE c

\* strings.ToUpper
ToUpper(s) == [i \in 1..Len(s) |-> UpperCh(s[i])]

\* strings.ToLower
ToLower(s) == [i \in 1..Len(s) |-> LowerCh(s[i])]

RECURSIVE TrimLeft(_)
TrimLeft(s) ==
  IF s # <<>> /\ Head(s) \in Spaces THEN TrimLeft(Tail(s)) ELSE s

RECURSIVE TrimRight(_)
TrimRight(s) ==
  IF s # <<>> /\ s[Len(s)] \in Spaces
    THEN TrimRight(SubSeq(s, 1, Len(s) - 1))
    ELSE s

\* strings.TrimSpace
TrimSpace(s) == TrimRight(TrimLeft(s))

\* strings.HasPrefix
HasPrefix(s, p) == Len(s) >= Len(p) /\ SubSeq(s, 1, Len(p)) = p

\* ------------------------------------------------------------- statements
kwSELECT   == <<"S","E","L","E","C","T">>
kwSHOW     == <<"S","H","O","W">>
kwDESCRIBE == <<"D","E","S","C","R","I","B","E">>
kwINSERT   == <<"I","N","S","E","R","T">>
kwUPDATE   == <<"U","P","D","A","T","E">>
kwDELETE   == <<"D","E","L","E","T","E">>
kwDROP     == <<"D","R","O","P">>
kwTRUNCATE == <<"T","R","U","N","C","A","T","E">>
kwCREATE   == <<"C","R","E","A","T","E">>
kwCOMMENT  == <<"/","*","*","/","D","R","O","P">>

Keywords == {kwSELECT, kwSHOW, kwDESCRIBE, kwINSERT, kwUPDATE, kwDELETE,
             kwDROP, kwTRUNCATE, kwCREATE, kwCOMMENT}

\* aLtErNaTiNg case, starting in lower case
MixCase(s) ==
  [i \in 1..Len(s) |-> IF i % 2 = 1 THEN LowerCh(s[i]) ELSE UpperCh(s[i])]

Leads == {[i \in 1..n |-> " "] : n \in 0..MaxLead}

\* the statements a client sends: a keyword in upper case with or without
\* an operand, and a keyword in mixed case behind white space
Operand == <<" ","t","a","b","l","e">>

SQLs ==
  { k \o t : k \in Keywords, t \in {<<>>, Operand} }
    \cup { l \o MixCase(k) \o Operand : l \in Leads, k \in Keywords }

SampleSQLs == {kwSELECT \o Operand, kwDROP \o Operand}

\* ------------------------------------------------------------ JSON values
Nil  == "nil"
NilV == [t |-> "nil"]

Absent  == [t |-> "absent"]
JNull   == [t |-> "null"]
JNumber == [t |-> "number"]

JName(n) == [t |-> "string", s |-> n]
JSql(q)  == [t |-> "string", chars |-> q]

\* the value of the "arguments" / "params" member of a tool call
ToolArgs ==
  {Absent, JNull, JNumber}
    \cup {[t |-> "object", sql |-> v] : v \in {Absent, JNull, JNumber}}
    \cup {[t |-> "object", sql |-> JSql(q)] : q \in SQLs}

ToolNames == {"query", "mcp_mysql_query", "mysql_query",
              "execute", "mcp_mysql_execute", "mysql_execute", "other"}

QueryNames   == {"query", "mcp_mysql_query", "mysql_query"}
ExecuteNames == {"execute", "mcp_mysql_execute", "mysql_execute"}

\* the two names the JSON-RPC server announces get every argument value,
\* the other names a sample statement
ArgsFor(n) ==
  IF n \in {"mcp_mysql_query", "mcp_mysql_execute"}
    THEN ToolArgs
    ELSE {[t |-> "object", sql |-> JSql(q)] : q \in SampleSQLs}

\* the value of the "params" member of an envelope
CallParams ==
  {Absent, JNull, JNumber}
    \cup {[t |-> "object", name |-> n, arguments |-> Absent, params |-> Absent] :
            n \in {Absent, JNumber}}
    \cup UNION {{[t |-> "object", name |-> JName(n), arguments |-> a, params |-> Absent] :
                   a \in ArgsFor(n)} : n \in ToolNames}
    \cup UNION {{[t |-> "object", name |-> JName(n), arguments |-> Absent, params |-> a] :
                   a \in ArgsFor(n)} : n \in ToolNames}

CallMethods == {"tools/call", "mcp/callTool"}

Methods ==
  {"", "initialize", "initialized", "tools/list", "ping", "mcp/initialize"}
    \cup CallMethods

\* the text of the "id" member: missing, null, or a value
IdTexts == {"absent", "null", "0", "7"}

NoParams == Absent

BadLine(k) == [kind |-> k, id |-> "absent", method |-> "", params |-> NoParams]

\* one line of standard input, up to and including its newline
Lines ==
  {BadLine(k) : k \in {"empty", "garbage", "nonobject", "badfield", "null"}}
    \cup {[kind |-> "envelope", id |-> i, method |-> m, params |-> NoParams] :
            i \in IdTexts, m \in Methods \ CallMethods}
    \cup {[kind |-> "envelope", id |-> i, method |-> m, params |-> p] :
            i \in {"7"}, m \in CallMethods, p \in CallParams}
    \cup {[kind |-> "envelope", id |-> "absent", method |-> m,
           params |-> [t |-> "object", name |-> JName(n),
                       arguments |-> [t |-> "object", sql |-> JSql(q)],
                       params |-> Absent]] :
            m \in CallMethods, n \in {"mcp_mysql_query", "other"}, q \in SampleSQLs}

\* ----------------------------------------------------------- pkg/db/db.go
NoCalls == <<>>

BackendCall(op, q) == [op |-> op, sql |-> q]

\* what the MySQL driver answers to one statement: success, an error, or
\* (for a query) rows holding a value encoding/json cannot encode
BackendResults == {"ok", "error", "unencodable"}

\* GetDB answering with any open connection when the name is unknown
GetDB_FallsBack(name) == name \in connections \/ connections # {}

\* DBManager.GetDB
GetDB(name) == name \in connections

\* DBManager.Query: the error it returns (Nil for none), whether the
\* QueryResult can be encoded, and the statements handed to db.Query
Query(dbName, query, bres) ==
  IF ~perm.AllowQuery
    THEN [err |-> "QueryNotAllowed", encodable |-> TRUE, calls |-> NoCalls]
  ELSE IF ~GetDB(dbName)
    THEN [err |-> "DBNotConfigured", encodable |-> TRUE, calls |-> NoCalls]
  ELSE IF bres = "error"
    THEN [err |-> "BackendError", encodable |-> TRUE,
          calls |-> <<BackendCall("Query", query)>>]
  ELSE [err |-> Nil, encodable |-> bres # "unencodable",
        calls |-> <<BackendCall("Query", query)>>]

\* ExecuteDenied with the update branch testing the insert flag
ExecuteDenied_SharedFlag(query) ==
  LET lowerQuery == TrimSpace(ToLower(query)) IN
    IF HasPrefix(lowerQuery, ToLower(kwINSERT))
      THEN IF ~perm.AllowInsert THEN "InsertNotAllowed" ELSE Nil
    ELSE IF HasPrefix(lowerQuery, ToLower(kwUPDATE))
      THEN IF ~perm.AllowInsert THEN "UpdateNotAllowed" ELSE Nil
    ELSE IF HasPrefix(lowerQuery, ToLower(kwDELETE))
      THEN IF ~perm.AllowDelete THEN "DeleteNotAllowed" ELSE Nil
    ELSE Nil

\* the permission switch at the head of DBManager.Execute
ExecuteDenied(query) ==
  LET lowerQuery == TrimSpace(ToLower(query)) IN
    IF HasPrefix(lowerQuery, ToLower(kwINSERT))
      THEN IF ~perm.AllowInsert THEN "InsertNotAllowed" ELSE Nil
    ELSE IF HasPrefix(lowerQuery, ToLower(kwUPDATE))
      THEN IF ~perm.AllowUpdate THEN "UpdateNotAllowed" ELSE Nil
    ELSE IF HasPrefix(lowerQuery, ToLower(kwDELETE))
      THEN IF ~perm.AllowDelete THEN "DeleteNotAllowed" ELSE Nil
    ELSE Nil

\* Execute that also asks for the query permission
Execute_NeedsQueryFlag(dbName, query, bres) ==
  IF ~perm.AllowQuery
    THEN [err |-> "QueryNotAllowed", calls |-> NoCalls]
  ELSE IF ExecuteDenied(query) # Nil
    THEN [err |-> ExecuteDenied(query), calls |-> NoCalls]
  ELSE IF ~GetDB(dbName)
    THEN [err |-> "DBNotConfigured", calls |-> NoCalls]
  ELSE IF bres = "error"
    THEN [err |-> "BackendError", calls |-> <<BackendCall("Exec", query)>>]
  ELSE [err |-> Nil, calls |-> <<BackendCall("Exec", query)>>]

\* DBManager.Execute (an ExecuteResult, two integers, can always be encoded)
Execute(dbName, query, bres) ==
  IF ExecuteDenied(query) # Nil
    THEN [err |-> ExecuteDenied(query), calls |-> NoCalls]
  ELSE IF ~GetDB(dbName)
    THEN [err |-> "DBNotConfigured", calls |-> NoCalls]
  ELSE IF bres = "error"
    THEN [err |-> "BackendError", calls |-> <<BackendCall("Exec", query)>>]
  ELSE [err |-> Nil, calls |-> <<BackendCall("Exec", query)>>]

\* --------------------------------- cmd/ai2mysql-mcp-server/mcp_server.go
\* MCPError
MCPError(code, message, data) ==
  [t |-> "error", code |-> code, message |-> message, data |-> data]

\* MCPMessage with the method member filled in
MCPMessage_WithMethod(id, result, error) ==
  [JSONRPC |-> "2.0", ID |-> id, Method |-> "response", Result |-> result, Error |-> error]

\* MCPMessage, as the server builds it for a reply
MCPMessage(id, result, error) ==
  [JSONRPC |-> "2.0", ID |-> id, Method |-> "", Result |-> result, Error |-> error]

\* the members json.Marshal writes for an MCPMessage: `jsonrpc` always, the
\* others (all tagged omitempty) unless empty
MarshalFields(m) ==
  {"jsonrpc"}
    \cup (IF m.ID # Nil THEN {"id"} ELSE {})
    \cup (IF m.Method # "" THEN {"method"} ELSE {})
    \cup (IF m.Result # NilV THEN {"result"} ELSE {})
    \cup (IF m.Error # NilV THEN {"error"} ELSE {})

\* json.Marshal(response): one JSON object, a function from member name to
\* value
Marshal(m) ==
  [f \in MarshalFields(m) |->
     CASE f = "jsonrpc" -> [t |-> "string", s |-> m.JSONRPC]
       [] f = "id"      -> [t |-> "id", s |-> m.ID]
       [] f = "method"  -> [t |-> "string", s |-> m.Method]
       [] f = "result"  -> m.Result
       [] f = "error"   -> m.Error]

\* what the calls of sendResponse made for one request did: the lines that
\* reached standard output, the error entries sendResponse and sendError
\* put in the operator's log, and the number of times the response writer
\* was used
Sent(written, entries, attempts) ==
  [written |-> written, logged |-> entries, attempts |-> attempts]

NoSend == Sent(<<>>, <<>>, 0)

\* the entry sendResponse logs when Write or Flush fails; sendResponse of
\* cmd/server drops the error of Write and Flush
WriteFailureLog ==
  IF binary = "server" THEN <<>> ELSE <<"WriteResponseFailed">>

\* the entry sendError logs before it sends; sendError of cmd/server logs
\* nothing
SendErrorLog ==
  IF binary = "server" THEN <<>> ELSE <<"SendingError">>

\* MCPServer.sendResponse
sendResponse(response) ==
  IF writerOK
    THEN Sent(<<Marshal(response)>>, <<>>, 1)
    ELSE Sent(<<>>, WriteFailureLog, 1)

\* sendError that leaves the id out of the reply
sendError_NoId(id, code, message, data) ==
  LET r == sendResponse(MCPMessage(Nil, NilV, MCPError(code, message, data)))
  IN [r EXCEPT !.logged = SendErrorLog \o @]

\* MCPServer.sendError
sendError(id, code, message, data) ==
  LET r == sendResponse(MCPMessage(id, NilV, MCPError(code, message, data)))
  IN [r EXCEPT !.logged = SendErrorLog \o @]

\* what handling a line did: the tool handler that ran, what was sent, the
\* statements handed to the backend, and the failure the Database Gateway
\* returned to the handler (Nil for none)
Done(h, out, cs) == [handler |-> h, out |-> out, calls |-> cs, gwerr |-> Nil]

GatewayFailed(h, out, cs, err) ==
  [handler |-> h, out |-> out, calls |-> cs, gwerr |-> err]

NoHandler == "none"

\* json.Unmarshal([]byte(line), &message)
UnmarshalMessage(line) ==
  IF line.kind \in {"empty", "garbage", "nonobject", "badfield"}
    THEN [err |-> TRUE, ID |-> Nil, Method |-> "", Params |-> Absent]
  ELSE IF line.kind = "null"
    THEN [err |-> FALSE, ID |-> Nil, Method |-> "", Params |-> Absent]
  ELSE [err |-> FALSE,
        ID |-> IF line.id \in {"absent", "null"} THEN Nil ELSE line.id,
        Method |-> line.method,
        Params |-> line.params]

\* json.Unmarshal(message.Params, &params) for ToolCallParams (member
\* "arguments") and for ToolParams (member "params")
UnmarshalToolParams(raw, member) ==
  IF raw.t \in {"absent", "number"}
    THEN [err |-> TRUE, Name |-> "", Raw |-> Absent]
  ELSE IF raw.t = "null"
    THEN [err |-> FALSE, Name |-> "", Raw |-> Absent]
  ELSE IF raw.name.t = "number"
    THEN [err |-> TRUE, Name |-> "", Raw |-> Absent]
  ELSE [err |-> FALSE,
        Name |-> IF raw.name.t = "string" THEN raw.name.s ELSE "",
        Raw |-> IF member = "arguments" THEN raw.arguments ELSE raw.params]

\* json.Unmarshal(rawParams, &sqlParams) for SQLParams
UnmarshalSQLParams(raw) ==
  IF raw.t \in {"absent", "number"}
    THEN [err |-> TRUE, SQL |-> <<>>]
  ELSE IF raw.t = "null"
    THEN [err |-> FALSE, SQL |-> <<>>]
  ELSE IF raw.sql.t = "number"
    THEN [err |-> TRUE, SQL |-> <<>>]
  ELSE [err |-> FALSE,
        SQL |-> IF raw.sql.t = "string" THEN raw.sql.chars ELSE <<>>]

ServerTools == <<"mcp_mysql_query", "mcp_mysql_execute">>

\* one entry of the tool manifest: the name, and the input schema, an
\* object whose required property "sql" is a string
ToolEntry(n) ==
  [name |-> n, type |-> "function",
   inputSchema |-> [type |-> "object", required |-> <<"sql">>,
                    properties |-> [sql |-> "string"]]]

\* MCPServer.handleInitialize: capabilities.tools is an object keyed by the
\* tool name
handleInitialize(message) ==
  Done(NoHandler, sendResponse(MCPMessage(message.ID,
         [t |-> "initialize",
          tools |-> [n \in {ServerTools[i] : i \in 1..Len(ServerTools)} |-> ToolEntry(n)]],
         NilV)), NoCalls)

\* handleToolsList announcing the tool names of the go-mcp server
handleToolsList_OtherNames(message) ==
  Done(NoHandler, sendResponse(MCPMessage(message.ID,
         [t |-> "tools", tools |-> <<ToolEntry("mysql_query"), ToolEntry("mysql_execute")>>],
         NilV)), NoCalls)

\* MCPServer.handleToolsList: tools is an array
handleToolsList(message) ==
  Done(NoHandler, sendResponse(MCPMessage(message.ID,
         [t |-> "tools", tools |-> [i \in 1..Len(ServerTools) |-> ToolEntry(ServerTools[i])]],
         NilV)), NoCalls)

ToolResult(text) == [t |-> "content", type |-> "text", text |-> text]

\* handleMySQLQuery that decodes the arguments before it tests allowQuery
handleMySQLQuery_DecodeFirst(id, rawParams, bres) ==
  LET sqlParams == UnmarshalSQLParams(rawParams) IN
    IF sqlParams.err
      THEN Done("handleMySQLQuery", sendError(id, -32602, "InvalidSQLParams", "err"), NoCalls)
    ELSE IF ~perm.AllowQuery
      THEN Done("handleMySQLQuery", sendError(id, -32000, "QueryNotAllowed", Nil), NoCalls)
    ELSE LET r == Query("default", sqlParams.SQL, bres) IN
      IF r.err # Nil
        THEN GatewayFailed("handleMySQLQuery", sendError(id, -32000, r.err, Nil),
                           r.calls, r.err)
      ELSE IF ~r.encodable
        THEN Done("handleMySQLQuery", sendError(id, -32000, "MarshalFailed", "err"),
                  r.calls)
      ELSE Done("handleMySQLQuery",
                sendResponse(MCPMessage(id, ToolResult("QueryResult"), NilV)), r.calls)

\* MCPServer.handleMySQLQuery
handleMySQLQuery(id, rawParams, bres) ==
  IF ~perm.AllowQuery
    THEN Done("handleMySQLQuery", sendError(id, -32000, "QueryNotAllowed", Nil), NoCalls)
  ELSE LET sqlParams == UnmarshalSQLParams(rawParams) IN
    IF sqlParams.err
      THEN Done("handleMySQLQuery", sendError(id, -32602, "InvalidSQLParams", "err"), NoCalls)
    ELSE LET r == Query("default", sqlParams.SQL, bres) IN
      IF r.err # Nil
        THEN GatewayFailed("handleMySQLQuery", sendError(id, -32000, r.err, Nil),
                           r.calls, r.err)
      ELSE IF ~r.encodable
        THEN Done("handleMySQLQuery", sendError(id, -32000, "MarshalFailed", "err"),
                  r.calls)
      ELSE Done("handleMySQLQuery",
                sendResponse(MCPMessage(id, ToolResult("QueryResult"), NilV)), r.calls)

\* handleMySQLExecute reporting a gateway failure as internal error (-32603)
handleMySQLExecute_InternalError(id, rawParams, bres) ==
  LET sqlParams == UnmarshalSQLParams(rawParams) IN
    IF sqlParams.err
      THEN Done("handleMySQLExecute", sendError(id, -32602, "InvalidSQLParams", "err"), NoCalls)
    ELSE LET r == Execute("default", sqlParams.SQL, bres) IN
      IF r.err # Nil
        THEN GatewayFailed("handleMySQLExecute", sendError(id, -32603, "InternalError", Nil),
                           r.calls, r.err)
        ELSE Done("handleMySQLExecute", sendResponse(MCPMessage(id, ToolResult("ExecuteResult"), NilV)),
                  r.calls)

\* MCPServer.handleMySQLExecute
handleMySQLExecute(id, rawParams, bres) ==
  LET sqlParams == UnmarshalSQLParams(rawParams) IN
    IF sqlParams.err
      THEN Done("handleMySQLExecute", sendError(id, -32602, "InvalidSQLParams", "err"), NoCalls)
    ELSE LET r == Execute("default", sqlParams.SQL, bres) IN
      IF r.err # Nil
        THEN GatewayFailed("handleMySQLExecute", sendError(id, -32000, r.err, Nil),
                           r.calls, r.err)
        ELSE Done("handleMySQLExecute", sendResponse(MCPMessage(id, ToolResult("ExecuteResult"), NilV)),
                  r.calls)

\* ToolHandler with the two cases exchanged
ToolHandler_Swapped(toolName) ==
  CASE toolName = "mcp_mysql_query"   -> "handleMySQLExecute"
    [] toolName = "mcp_mysql_execute" -> "handleMySQLQuery"
    [] OTHER                          -> NoHandler

\* the handler MCPServer.handleCallTool selects for a tool name
ToolHandler(toolName) ==
  CASE toolName = "mcp_mysql_query"   -> "handleMySQLQuery"
    [] toolName = "mcp_mysql_execute" -> "handleMySQLExecute"
    [] OTHER                          -> NoHandler

\* ArgumentsMember reading "arguments" under both methods
ArgumentsMember_Always(method) == "arguments"

\* the member of the call parameters MCPServer.handleCallTool reads
ArgumentsMember(method) ==
  IF method = "tools/call" THEN "arguments" ELSE "params"

\* MCPServer.handleCallTool
handleCallTool(message, bres) ==
  LET params == UnmarshalToolParams(message.Params, ArgumentsMember(message.Method)) IN
    IF params.err
      THEN Done(NoHandler, sendError(message.ID, -32602, "InvalidParams", "err"), NoCalls)
    ELSE CASE ToolHandler(params.Name) = "handleMySQLQuery" ->
                handleMySQLQuery(message.ID, params.Raw, bres)
           [] ToolHandler(params.Name) = "handleMySQLExecute" ->
                handleMySQLExecute(message.ID, params.Raw, bres)
           [] OTHER ->
                Done(NoHandler, sendError(message.ID, -32601, "ToolNotSupported", params.Name),
                     NoCalls)

\* handleMessage answering an unknown method with invalid request (-32600)
handleMessage_InvalidRequest(message, bres) ==
  CASE message.Method = "initialize"   -> handleInitialize(message)
    [] message.Method = "initialized"  -> Done(NoHandler, NoSend, NoCalls)
    [] message.Method = "tools/list"   -> handleToolsList(message)
    [] message.Method = "mcp/callTool" -> handleCallTool(message, bres)
    [] message.Method = "tools/call"   -> handleCallTool(message, bres)
    [] OTHER ->
         Done(NoHandler, sendError(message.ID, -32600, "MethodNotSupported", message.Method),
              NoCalls)

\* MCPServer.handleMessage
handleMessage(message, bres) ==
  CASE message.Method = "initialize"   -> handleInitialize(message)
    [] message.Method = "initialized"  -> Done(NoHandler, NoSend, NoCalls)
    [] message.Method = "tools/list"   -> handleToolsList(message)
    [] message.Method = "mcp/callTool" -> handleCallTool(message, bres)
    [] message.Method = "tools/call"   -> handleCallTool(message, bres)
    [] OTHER ->
         Done(NoHandler, sendError(message.ID, -32601, "MethodNotSupported", message.Method),
              NoCalls)

\* ------------------------------------------------ cmd/server/mcp_server.go
\* MCPServer.handleInitialize of cmd/server
server_handleInitialize(message) ==
  Done(NoHandler, sendResponse(MCPMessage(message.ID,
         [t |-> "initialize",
          tools |-> [i \in 1..Len(ServerTools) |-> ToolEntry(ServerTools[i])]],
         NilV)), NoCalls)

\* MCPServer.handleCallTool of cmd/server: the call parameters are
\* {name, params}; its two tool handlers are those of the later server
\* without the logger
server_handleCallTool(message, bres) ==
  LET params == UnmarshalToolParams(message.Params, "params") IN
    IF params.err
      THEN Done(NoHandler, sendError(message.ID, -32602, "InvalidParams", "err"), NoCalls)
    ELSE CASE params.Name = "mcp_mysql_query" ->
                handleMySQLQuery(message.ID, params.Raw, bres)
           [] params.Name = "mcp_mysql_execute" ->
                handleMySQLExecute(message.ID, params.Raw, bres)
           [] OTHER ->
                Done(NoHandler, sendError(message.ID, -32601, "ToolNotSupported", params.Name),
                     NoCalls)

\* MCPServer.handleMessage of cmd/server
server_handleMessage(message, bres) ==
  CASE message.Method = "mcp/initialize" -> server_handleInitialize(message)
    [] message.Method = "mcp/callTool"   -> server_handleCallTool(message, bres)
    [] OTHER ->
         Done(NoHandler, sendError(message.ID, -32601, "MethodNotSupported", message.Method),
              NoCalls)

\* one iteration of the loop of MCPServer.Run on a line that was read
RunLine(line, bres) ==
  LET message == UnmarshalMessage(line) IN
    IF message.err
      THEN Done(NoHandler, sendError(Nil, -32700, "ParseJSONFailed", "err"), NoCalls)
    ELSE IF binary = "server"
      THEN server_handleMessage(message, bres)
      ELSE handleMessage(message, bres)

\* ------------------------------------------- the go-mcp based server
\* the arguments of a CallToolRequest
GoArguments ==
  {[t |-> "object", sql |-> v] : v \in {Absent, JNull, JNumber}}
    \cup {[t |-> "object", sql |-> JSql(q)] : q \in SQLs}

\* what a go-mcp handler returns: a result, an error, or a run-time panic
Returned(outcome, err, cs) == [outcome |-> outcome, err |-> err, calls |-> cs]

NoReturn == Returned("none", Nil, NoCalls)

\* log.Printf("... %s", sqlUpper[:10]): the slice expression panics on a
\* string shorter than 10 bytes
SlicePanics(sqlUpper) == Len(sqlUpper) < 10

\* handleQuery
handleQuery(arguments, bres) ==
  IF arguments.sql.t # "string"
    THEN Returned("error", "sql must be a string", NoCalls)
  ELSE LET sql == arguments.sql.chars
           sqlUpper == TrimSpace(ToUpper(sql)) IN
    IF ~HasPrefix(sqlUpper, kwSELECT) /\ ~HasPrefix(sqlUpper, kwSHOW)
         /\ ~HasPrefix(sqlUpper, kwDESCRIBE)
      THEN IF logEnabled /\ SlicePanics(sqlUpper)
             THEN Returned("panic", "slice bounds out of range", NoCalls)
             ELSE Returned("error", "only SELECT, SHOW, or DESCRIBE queries are allowed",
                           NoCalls)
    ELSE IF bres = "error"
      THEN Returned("error", "query execution error", <<BackendCall("Query", sql)>>)
    ELSE IF bres = "unencodable"
      THEN Returned("error", "JSON serialization failed", <<BackendCall("Query", sql)>>)
    ELSE Returned("result", Nil, <<BackendCall("Query", sql)>>)

\* handleExecute
handleExecute(arguments, bres) ==
  IF arguments.sql.t # "string"
    THEN Returned("error", "sql must be a string", NoCalls)
  ELSE LET sql == arguments.sql.chars
           sqlUpper == TrimSpace(ToUpper(sql)) IN
    IF HasPrefix(sqlUpper, kwINSERT) /\ ~perm.AllowInsert
      THEN Returned("error", "no INSERT permission", NoCalls)
    ELSE IF HasPrefix(sqlUpper, kwUPDATE) /\ ~perm.AllowUpdate
      THEN Returned("error", "no UPDATE permission", NoCalls)
    ELSE IF HasPrefix(sqlUpper, kwDELETE) /\ ~perm.AllowDelete
      THEN Returned("error", "no DELETE permission", NoCalls)
    ELSE IF HasPrefix(sqlUpper, kwDROP) \/ HasPrefix(sqlUpper, kwTRUNCATE)
      THEN IF logEnabled /\ SlicePanics(sqlUpper)
             THEN Returned("panic", "slice bounds out of range", NoCalls)
             ELSE Returned("error", "DROP or TRUNCATE operations are not allowed",
                           NoCalls)
    ELSE IF bres = "error"
      THEN Returned("error", "SQL execution error", <<BackendCall("Exec", sql)>>)
      ELSE Returned("result", Nil, <<BackendCall("Exec", sql)>>)

\* srv.RegisterTool: the tool names of the go-mcp server
RegisteredTools == {"mysql_query", "mysql_execute"}

\* ------------------------------------------------------------------ state
Permissions ==
  [AllowQuery : BOOLEAN, AllowInsert : BOOLEAN,
   AllowUpdate : BOOLEAN, AllowDelete : BOOLEAN]

NoRequest == [kind |-> "none"]

\* the labels of cfg.Databases: LoadConfig never leaves the map empty, and
\* the label "default" may or may not be among them
Configurations == {{"default"}, {"other"}, {"default", "other"}}

\* how opening one configured connection ends
OpenResults == {"ok", "openfail", "pingfail"}

\* the row conversion, LoadConfig and the interactive loop are not running
NoUnit == [t |-> "none"]

UnitsIdle ==
  /\ cursor = NoUnit
  /\ rowset = NoUnit
  /\ environ = NoUnit
  /\ configFile = NoUnit
  /\ loaded = NoUnit
  /\ stdin = "none"

\* The state when main has loaded its configuration.  The two JSON-RPC
\* servers run with the permission record of the configuration; the go-mcp
\* server has three permission globals, no query flag, and one connection.
\* configured: the labels of cfg.Databases; connections: the labels of
\* manager.connections; opened: the labels whose *sql.DB was opened by
\* sql.Open and not closed since; startErr: why main stopped before the
\* loop.  writerOK: standard output accepts what is written to it.
\* lastRead: how the last ReadString ended; dropped: bytes were read from
\* standard input and never handled; runErr: Run returned an error;
\* exitStatus: the exit status of the process, Nil while it runs.
Init ==
  /\ binary \in {"jsonrpc", "server", "gomcp"}
  /\ perm \in Permissions
  /\ binary = "gomcp" => perm.AllowQuery
  /\ configured \in Configurations
  /\ binary = "gomcp" => configured = {"default"}
  /\ connections = {}
  /\ opened = {}
  /\ startErr = Nil
  /\ logEnabled \in BOOLEAN
  /\ binary # "gomcp" => ~logEnabled
  /\ writerOK = TRUE
  /\ pc = "starting"
  /\ lastRead = "none"
  /\ dropped = FALSE
  /\ runErr = FALSE
  /\ exitStatus = Nil
  /\ request = NoRequest
  /\ handler = NoHandler
  /\ resp = <<>>
  /\ logged = <<>>
  /\ writes = 0
  /\ gwerr = Nil
  /\ calls = NoCalls
  /\ ret = NoReturn
  /\ UnitsIdle

\* ---------------------------------------------------------------- actions
\* pc is "starting" while main builds the gateway, "aborted" when main
\* stopped in log.Fatalf before the loop, "waiting" while the server is
\* blocked reading the next request, "handled" when the request it read has
\* been handled and answered, "returned" when the loop has ended and
\* "exited" when the process has stopped.  request, resp, logged, writes,
\* gwerr, calls and ret describe the request read last.

perRequest == <<request, handler, resp, logged, writes, gwerr, calls, ret>>

\* the variables of the row conversion, of LoadConfig and of the
\* interactive loop, which the servers above leave alone
units == <<cursor, rowset, environ, configFile, loaded, stdin>>

setup == <<binary, perm, configured, logEnabled, units>>

\* OpenConnection that leaves out a connection it cannot open and goes on
OpenConnection_SkipFailed(name, res) ==
  /\ pc = "starting"
  /\ name \in configured \ connections
  /\ IF res = "ok"
       THEN /\ connections' = connections \cup {name}
            /\ opened' = opened \cup {name}
            /\ UNCHANGED <<configured, startErr>>
       ELSE /\ connections' = connections
            /\ configured' = configured \ {name}
            /\ opened' = IF res = "pingfail" THEN opened \cup {name} ELSE opened
            /\ startErr' = IF res = "pingfail" THEN "PingFailed" ELSE "OpenFailed"
  /\ UNCHANGED <<binary, perm, logEnabled, writerOK, pc, lastRead, dropped, runErr,
                 exitStatus, perRequest, units>>

\* one iteration of the loop of NewDBManager (initDB in the go-mcp server):
\* sql.Open and Ping of one configured connection, in map order; a failure
\* makes NewDBManager return nil and main stop in log.Fatalf
OpenConnection(name, res) ==
  /\ pc = "starting"
  /\ name \in configured \ connections
  /\ IF res = "ok"
       THEN /\ connections' = connections \cup {name}
            /\ opened' = opened \cup {name}
            /\ UNCHANGED <<pc, startErr, exitStatus>>
       ELSE /\ connections' = {}
            /\ opened' = IF res = "pingfail" THEN opened \cup {name} ELSE opened
            /\ startErr' = IF res = "pingfail" THEN "PingFailed" ELSE "OpenFailed"
            /\ pc' = "aborted"
            /\ exitStatus' = 1
  /\ UNCHANGED <<setup, dropped, writerOK, lastRead, runErr, perRequest>>

\* main goes on to the request loop once NewDBManager has returned the
\* gateway and the server object was built
StartLoop ==
  /\ pc = "starting"
  /\ connections = configured
  /\ pc' = "waiting"
  /\ UNCHANGED <<setup, dropped, connections, opened, startErr, writerOK, lastRead, runErr,
                 exitStatus, perRequest>>

\* NewMCPServer (server.NewServer in the go-mcp server) fails and main stops
\* in log.Fatalf, which skips the deferred Close
StartFail ==
  /\ binary \in {"jsonrpc", "gomcp"}
  /\ pc = "starting"
  /\ connections = configured
  /\ pc' = "aborted"
  /\ startErr' = "ServerFailed"
  /\ exitStatus' = 1
  /\ UNCHANGED <<setup, dropped, connections, opened, writerOK, lastRead, runErr, perRequest>>

\* ReadLine that also reads while the last request is still in hand
ReadLine_Overlapped(line, bres) ==
  /\ binary \in {"jsonrpc", "server"}
  /\ pc \in {"waiting", "handled"}
  /\ \E d \in {RunLine(line, bres)} :
       /\ request' = line
       /\ handler' = d.handler
       /\ resp' = resp \o d.out.written
       /\ logged' = d.out.logged
       /\ writes' = d.out.attempts
       /\ gwerr' = d.gwerr
       /\ calls' = calls \o d.calls
  /\ pc' = "handled"
  /\ lastRead' = "line"
  /\ UNCHANGED <<setup, dropped, connections, opened, startErr, writerOK, runErr, exitStatus, ret>>

\* MCPServer.Run reads a line and handles it
ReadLine(line, bres) ==
  /\ binary \in {"jsonrpc", "server"}
  /\ pc = "waiting"
  /\ \E d \in {RunLine(line, bres)} :
       /\ request' = line
       /\ handler' = d.handler
       /\ resp' = d.out.written
       /\ logged' = d.out.logged
       /\ writes' = d.out.attempts
       /\ gwerr' = d.gwerr
       /\ calls' = d.calls
  /\ pc' = "handled"
  /\ lastRead' = "line"
  /\ UNCHANGED <<setup, dropped, connections, opened, startErr, writerOK, runErr, exitStatus, ret>>

\* WaitNext that makes Run return an error after a failed write
WaitNext_StopOnWriteFailure ==
  /\ pc = "handled"
  /\ pc' = IF writes > 0 /\ resp = <<>> THEN "returned" ELSE "waiting"
  /\ runErr' = (writes > 0 /\ resp = <<>>)
  /\ request' = NoRequest
  /\ handler' = NoHandler
  /\ resp' = <<>>
  /\ logged' = <<>>
  /\ writes' = 0
  /\ gwerr' = Nil
  /\ calls' = NoCalls
  /\ ret' = NoReturn
  /\ lastRead' = "none"
  /\ UNCHANGED <<setup, dropped, connections, opened, startErr, writerOK, exitStatus>>

\* the loop goes back to its blocking read
WaitNext ==
  /\ pc = "handled"
  /\ pc' = "waiting"
  /\ request' = NoRequest
  /\ handler' = NoHandler
  /\ resp' = <<>>
  /\ logged' = <<>>
  /\ writes' = 0
  /\ gwerr' = Nil
  /\ calls' = NoCalls
  /\ ret' = NoReturn
  /\ lastRead' = "none"
  /\ UNCHANGED <<setup, dropped, connections, opened, startErr, writerOK, runErr, exitStatus>>

\* MCPServer.Run reads end-of-stream and returns nil.  tail: ReadString
\* returned bytes of a last line without newline together with io.EOF; Run
\* looks at the error only and drops them
ReadEOF(tail) ==
  /\ binary \in {"jsonrpc", "server"}
  /\ pc = "waiting"
  /\ pc' = "returned"
  /\ runErr' = FALSE
  /\ lastRead' = "eof"
  /\ dropped' = tail
  /\ UNCHANGED <<setup, connections, opened, startErr, writerOK, exitStatus, perRequest>>

\* MCPServer.Run fails to read and returns the error
ReadFail ==
  /\ binary \in {"jsonrpc", "server"}
  /\ pc = "waiting"
  /\ pc' = "returned"
  /\ runErr' = TRUE
  /\ lastRead' = "error"
  /\ UNCHANGED <<setup, dropped, connections, opened, startErr, writerOK, exitStatus, perRequest>>

\* main after Run: on nil it returns and the deferred dbManager.Close runs;
\* on an error it stops in log.Fatalf, which exits without running it
Exit ==
  /\ pc = "returned"
  /\ pc' = "exited"
  /\ opened' = IF runErr THEN opened ELSE opened \ connections
  /\ exitStatus' = IF runErr THEN 1 ELSE 0
  /\ UNCHANGED <<setup, dropped, connections, startErr, writerOK, lastRead, runErr, perRequest>>

\* standard output stops accepting writes (the bufio.Writer keeps the error
\* and fails every later Write and Flush)
WriterBreaks ==
  /\ binary \in {"jsonrpc", "server"}
  /\ pc = "waiting"
  /\ writerOK
  /\ writerOK' = FALSE
  /\ UNCHANGED <<setup, dropped, connections, opened, startErr, pc, lastRead, runErr,
                 exitStatus, perRequest>>

\* CallQuery that switches the insert permission on
CallQuery_GrantsInsert(arguments, bres) ==
  /\ binary = "gomcp"
  /\ pc = "waiting"
  /\ pc' = "handled"
  /\ \E r \in {handleQuery(arguments, bres)} :
       /\ request' = [kind |-> "call", tool |-> "mysql_query", arguments |-> arguments]
       /\ handler' = "handleQuery"
       /\ ret' = r
       /\ calls' = r.calls
  /\ perm' = [perm EXCEPT !.AllowInsert = TRUE]
  /\ UNCHANGED <<binary, configured, logEnabled, connections, opened, startErr,
                 writerOK, lastRead, dropped, runErr, exitStatus, resp, logged,
                 writes, gwerr, units>>

\* the go-mcp server calls the handler registered for mysql_query
CallQuery(arguments, bres) ==
  /\ binary = "gomcp"
  /\ pc = "waiting"
  /\ pc' = "handled"
  /\ \E r \in {handleQuery(arguments, bres)} :
       /\ request' = [kind |-> "call", tool |-> "mysql_query", arguments |-> arguments]
       /\ handler' = "handleQuery"
       /\ ret' = r
       /\ calls' = r.calls
  /\ UNCHANGED <<setup, dropped, connections, opened, startErr, writerOK, lastRead, runErr,
                 exitStatus, resp, logged, writes, gwerr>>

\* the go-mcp server calls the handler registered for mysql_execute
CallExecute(arguments, bres) ==
  /\ binary = "gomcp"
  /\ pc = "waiting"
  /\ pc' = "handled"
  /\ \E r \in {handleExecute(arguments, bres)} :
       /\ request' = [kind |-> "call", tool |-> "mysql_execute", arguments |-> arguments]
       /\ handler' = "handleExecute"
       /\ ret' = r
       /\ calls' = r.calls
  /\ UNCHANGED <<setup, dropped, connections, opened, startErr, writerOK, lastRead, runErr,
                 exitStatus, resp, logged, writes, gwerr>>

Next ==
  \/ \E name \in {"default", "other"}, res \in OpenResults : OpenConnection(name, res)
  \/ StartLoop
  \/ StartFail
  \/ \E line \in Lines, bres \in BackendResults : ReadLine(line, bres)
  \/ WaitNext
  \/ \E tail \in BOOLEAN : ReadEOF(tail)
  \/ ReadFail
  \/ Exit
  \/ \E arguments \in GoArguments, bres \in BackendResults : CallQuery(arguments, bres)
  \/ \E arguments \in GoArguments, bres \in BackendResults : CallExecute(arguments, bres)

Spec == Init /\ [][Next]_vars

\* the same program on a standard output that may stop accepting writes
NextIO == Next \/ WriterBreaks

SpecIO == Init /\ [][NextIO]_vars

TypeOK ==
  /\ binary \in {"jsonrpc", "server", "gomcp"}
  /\ perm \in Permissions
  /\ pc \in {"starting", "aborted", "waiting", "handled", "returned", "exited"}
  /\ connections \subseteq configured
  /\ Len(resp) <= 1
  /\ Len(calls) <= 1
  /\ writes \in 0..1

\* ====================================================== row materialization
\* The loop over *sql.Rows in DBManager.Query (binary "jsonrpc") and in
\* handleQuery of the go-mcp server (binary "gomcp").
MaxCols == 2
MaxRows == 2

\* the column names of a result set, in the order encoding/json writes them
\* as the keys of an object
ColumnNames == <<"a", "b">>

\* what the driver hands to rows.Scan for an interface{} destination
DBBytes == [t |-> "bytes", s |-> "x"]
DBInt   == [t |-> "int64", n |-> 1]
DBValues == {JNull, DBBytes, DBInt}

\* the result set behind one *sql.Rows: the column names in backend order,
\* the rows in cursor order, the row whose Scan fails (0 for none), whether
\* the iteration ends with an error, and the number of rows read so far
Cursors ==
  UNION {
    UNION {
      {[columns |-> c, rows |-> r, scanFails |-> f, iterErr |-> e, read |-> 0] :
         f \in 0..Len(r), e \in BOOLEAN} :
      r \in UNION {[1..n -> [1..Len(c) -> DBValues]] : n \in 0..MaxRows}} :
    c \in UNION {[1..k -> {ColumnNames[i] : i \in 1..Len(ColumnNames)}] : k \in 1..MaxCols}}

\* the type switch on a scanned value: []byte becomes a string, every other
\* value, nil included, is kept
ConvertValue(v) ==
  IF v.t = "bytes" THEN [t |-> "string", s |-> v.s] ELSE v

\* DBManager.Query: the row appended to result.Rows
QueryRow(values) == [i \in 1..Len(values) |-> ConvertValue(values[i])]

\* handleQuery: the row appended to results, a map keyed by column name in
\* which a later column of the same name overwrites an earlier one
handleQueryRow(columns, values) ==
  [c \in {columns[i] : i \in 1..Len(columns)} |->
     ConvertValue(values[CHOOSE i \in 1..Len(columns) :
                           /\ columns[i] = c
                           /\ \A j \in 1..Len(columns) : columns[j] = c => j <= i])]

\* json.Marshal of a map[string]interface{}: an object whose keys are
\* written in sorted order
MarshalRow(row) ==
  [keys |-> SelectSeq(ColumnNames, LAMBDA c : c \in DOMAIN row), val |-> row]

\* a []map[string]interface{}: the nil slice, or its elements
NilSlice == [isNil |-> TRUE, elems |-> <<>>]

AppendSlice(slice, e) == [isNil |-> FALSE, elems |-> Append(slice.elems, e)]

\* json.Marshal(results): null for the nil slice of a result without rows
MarshalResults(results) ==
  IF results.isNil
    THEN JNull
    ELSE [t |-> "array",
          items |-> [i \in 1..Len(results.elems) |-> MarshalRow(results.elems[i])]]

\* a query of a configured connection is under way
InitRows ==
  /\ binary \in {"jsonrpc", "gomcp"}
  /\ perm = [AllowQuery |-> TRUE, AllowInsert |-> FALSE,
             AllowUpdate |-> FALSE, AllowDelete |-> FALSE]
  /\ configured = {"default"}
  /\ connections = {"default"}
  /\ opened = {"default"}
  /\ startErr = Nil
  /\ logEnabled = FALSE
  /\ writerOK = TRUE
  /\ pc = "columns"
  /\ lastRead = "none"
  /\ dropped = FALSE
  /\ runErr = FALSE
  /\ exitStatus = Nil
  /\ request = NoRequest
  /\ handler = NoHandler
  /\ resp = <<>>
  /\ logged = <<>>
  /\ writes = 0
  /\ gwerr = Nil
  /\ calls = NoCalls
  /\ ret = NoReturn
  /\ cursor \in Cursors
  /\ rowset = NoUnit
  /\ environ = NoUnit
  /\ configFile = NoUnit
  /\ loaded = NoUnit
  /\ stdin = "none"

\* the variables the row loop leaves alone
outsideRows ==
  <<binary, perm, configured, connections, opened, startErr, logEnabled,
    writerOK, lastRead, dropped, runErr, exitStatus, perRequest,
    environ, configFile, loaded, stdin>>

\* rows.Columns() and the empty result: result.Rows is an empty slice in
\* DBManager.Query, results a nil slice in handleQuery
Columns ==
  /\ pc = "columns"
  /\ pc' = "rows"
  /\ rowset' = IF binary = "jsonrpc"
                 THEN [t |-> "building", Columns |-> cursor.columns, Rows |-> <<>>]
                 ELSE [t |-> "building", results |-> NilSlice]
  /\ UNCHANGED <<cursor, outsideRows>>

\* rows.Next() gives a row and rows.Scan reads it: the scan fails and the
\* function returns the error without the rows, or the row is converted and
\* appended
ScanRow ==
  /\ pc = "rows"
  /\ cursor.read < Len(cursor.rows)
  /\ cursor' = [cursor EXCEPT !.read = @ + 1]
  /\ LET values == cursor.rows[cursor.read + 1] IN
       IF cursor.scanFails = cursor.read + 1
         THEN /\ pc' = "done"
              /\ rowset' = IF binary = "jsonrpc"
                             THEN [t |-> "error", Error |-> "ScanFailed"]
                             ELSE [t |-> "error", err |-> "failed to read row data"]
         ELSE /\ pc' = "rows"
              /\ rowset' =
                   IF binary = "jsonrpc"
                     THEN [rowset EXCEPT !.Rows = Append(@, QueryRow(values))]
                     ELSE [rowset EXCEPT
                             !.results = AppendSlice(@, handleQueryRow(cursor.columns, values))]
  /\ UNCHANGED outsideRows

\* rows.Next() gives no more rows: rows.Err() is tested and the result is
\* returned; handleQuery returns the JSON text of results
RowsEnd ==
  /\ pc = "rows"
  /\ cursor.read = Len(cursor.rows)
  /\ pc' = "done"
  /\ rowset' =
       IF cursor.iterErr
         THEN IF binary = "jsonrpc"
                THEN [t |-> "error", Error |-> "IterationFailed"]
                ELSE [t |-> "error", err |-> "error iterating through results"]
         ELSE IF binary = "jsonrpc"
                THEN [t |-> "result", Columns |-> rowset.Columns, Rows |-> rowset.Rows]
                ELSE [t |-> "result", text |-> MarshalResults(rowset.results)]
  /\ UNCHANGED <<cursor, outsideRows>>

NextRows == Columns \/ ScanRow \/ RowsEnd

SpecRows == InitRows /\ [][NextRows]_vars

\* the value the backend delivered, with a byte string rendered as text
AsText(v) == IF v = DBBytes THEN [t |-> "string", s |-> "x"] ELSE v

\* the column names the result delivers with row i, in the order delivered,
\* and the value it delivers for column j of row i
DeliveredColumns(i) ==
  IF binary = "jsonrpc" THEN rowset.Columns ELSE rowset.text.items[i].keys

DeliveredRows ==
  IF binary = "jsonrpc" THEN Len(rowset.Rows)
  ELSE IF rowset.text = JNull THEN 0 ELSE Len(rowset.text.items)

DeliveredValue(i, j) ==
  IF binary = "jsonrpc"
    THEN rowset.Rows[i][j]
    ELSE rowset.text.items[i].val[cursor.columns[j]]

\* the query failed while scanning or iterating
RowsFailed ==
  \/ cursor.scanFails \in 1..cursor.read
  \/ cursor.iterErr /\ cursor.read = Len(cursor.rows)

\* C22: the RowSet a successful query returns lists the columns in backend
\* order and the rows in cursor order with one value per column, every
\* byte-string value as text and every other value, null included,
\* unchanged; when a scan or the iteration fails the call returns an error
\* and none of the rows read so far.
C22_RowSetMatchesCursor ==
  pc = "done" =>
    /\ RowsFailed <=> rowset.t = "error"
    /\ rowset.t = "error" => DOMAIN rowset \cap {"Rows", "results", "text"} = {}
    /\ rowset.t = "result" =>
         /\ DeliveredRows = Len(cursor.rows)
         /\ \A i \in 1..Len(cursor.rows) :
              /\ DeliveredColumns(i) = cursor.columns
              /\ \A j \in 1..Len(cursor.columns) :
                   DeliveredValue(i, j) = AsText(cursor.rows[i][j])

\* the same for DBManager.Query alone, which holds
GatewayRowSetMatchesCursor ==
  binary = "jsonrpc" => C22_RowSetMatchesCursor

\* ================================================================ LoadConfig
\* LoadConfig of pkg/config (binary "jsonrpc") and of the later config
\* package of src/unnamed/part_002 (binary "part_002"), which also reads
\* JSON-valued and dotted environment variables.

\* an environment variable that is not set reads as the empty string
Unset == <<>>

UnsetJSON == [t |-> "unset"]

\* the nil *Config
NoConfig == [t |-> "none"]

\* os.Getenv for a variable holding text, and for one holding a JSON text
Getenv(env, name) == IF name \in DOMAIN env THEN env[name] ELSE Unset

GetenvJSON(env, name) == IF name \in DOMAIN env THEN env[name] ELSE UnsetJSON

Digits == <<"0","1","2","3","4","5","6","7","8","9">>

IsDigit(c) == \E i \in 1..10 : Digits[i] = c

DigitValue(c) == (CHOOSE i \in 1..10 : Digits[i] = c) - 1

RECURSIVE DecimalValue(_)
DecimalValue(s) ==
  IF s = <<>> THEN 0
  ELSE 10 * DecimalValue(SubSeq(s, 1, Len(s) - 1)) + DigitValue(s[Len(s)])

\* strconv.Atoi on an unsigned decimal text
Atoi(s) ==
  IF s # <<>> /\ \A i \in 1..Len(s) : IsDigit(s[i])
    THEN [err |-> FALSE, n |-> DecimalValue(s)]
    ELSE [err |-> TRUE, n |-> 0]

\* DBConfig values
DBConfig(host, port, user, password, dbname) ==
  [Host |-> host, Port |-> port, User |-> user, Password |-> password, DBName |-> dbname]

QueryOnly ==
  [AllowQuery |-> TRUE, AllowInsert |-> FALSE, AllowUpdate |-> FALSE, AllowDelete |-> FALSE]

\* a configuration LoadConfig returns; source: the branch that built it
Config(source, databases, permission) ==
  [t |-> "config", source |-> source, Databases |-> databases, Permission |-> permission]

\* DefaultConfig
DefaultDatabases ==
  [l \in {"default"} |->
     DBConfig(<<"l","o","c","a","l","h","o","s","t">>, 3306, <<"r","o","o","t">>,
              <<>>, <<"t","e","s","t">>)]

DefaultConfig == Config("default", DefaultDatabases, QueryOnly)

\* parseBoolEnv
parseBoolEnv(value, defaultVal) ==
  IF value = <<>>
    THEN defaultVal
    ELSE ToLower(value) \in {<<"t","r","u","e">>, <<"1">>, <<"y","e","s">>, <<"y">>}

\* a JSON text of a permission object: each member true, false or left out
PermissionDoc(q, i, u, d) ==
  [t |-> "object", allow_query |-> q, allow_insert |-> i, allow_update |-> u,
   allow_delete |-> d]

\* json.Unmarshal into a Permission: a member that is left out leaves the
\* zero value false
UnmarshalPermission(doc) ==
  IF doc.t # "object"
    THEN [AllowQuery |-> FALSE, AllowInsert |-> FALSE, AllowUpdate |-> FALSE,
          AllowDelete |-> FALSE]
    ELSE [AllowQuery |-> doc.allow_query = "true", AllowInsert |-> doc.allow_insert = "true",
          AllowUpdate |-> doc.allow_update = "true", AllowDelete |-> doc.allow_delete = "true"]

\* json.Unmarshal into a map[string]DBConfig: no member, no entry
UnmarshalDatabases(doc) ==
  IF doc.t # "object" THEN <<>> ELSE doc.entries

\* LoadConfigFromEnv of pkg/config: no configuration when neither MYSQL_HOST nor
\* MYSQL_USER is set
LoadConfigFromEnv(env) ==
  LET host == Getenv(env, "MYSQL_HOST")
      portStr == Getenv(env, "MYSQL_PORT")
      user == Getenv(env, "MYSQL_USER")
      pass == Getenv(env, "MYSQL_PASS")
      dbName == Getenv(env, "DEFAULT_DATABASE")
      base == DefaultDatabases["default"]
  IN IF host = <<>> /\ user = <<>>
       THEN NoConfig
       ELSE Config("env",
              [l \in {"default"} |->
                 DBConfig(IF host # <<>> THEN host ELSE base.Host,
                          IF portStr # <<>> /\ ~Atoi(portStr).err /\ Atoi(portStr).n > 0
                            THEN Atoi(portStr).n ELSE base.Port,
                          IF user # <<>> THEN user ELSE base.User,
                          IF pass # <<>> THEN pass ELSE base.Password,
                          IF dbName # <<>> THEN dbName ELSE base.DBName)],
              [AllowQuery |-> TRUE,
               AllowInsert |-> parseBoolEnv(Getenv(env, "ALLOW_INSERT"), FALSE),
               AllowUpdate |-> parseBoolEnv(Getenv(env, "ALLOW_UPDATE"), FALSE),
               AllowDelete |-> parseBoolEnv(Getenv(env, "ALLOW_DELETE"), FALSE)])

\* the branch of loadConfigFromJsonEnv that builds a configuration from a
\* databases text and a permission text
FromJsonTexts(dbText, permText) ==
  Config("jsonenv",
         IF dbText # UnsetJSON /\ dbText.t = "object" /\ DOMAIN dbText.entries # {}
           THEN dbText.entries ELSE DefaultDatabases,
         IF permText # UnsetJSON /\ permText.t = "object"
           THEN UnmarshalPermission(permText) ELSE QueryOnly)

\* loadConfigFromJsonEnv of part_002
loadConfigFromJsonEnv(env) ==
  LET databasesEnv == GetenvJSON(env, "databases")
      permissionEnv == GetenvJSON(env, "permission")
      dbJsonStr == GetenvJSON(env, "env.databases")
      permJsonStr == GetenvJSON(env, "env.permission")
      envJsonStr == GetenvJSON(env, "env")
  IN IF databasesEnv = UnsetJSON /\ permissionEnv = UnsetJSON
       THEN IF dbJsonStr # UnsetJSON \/ permJsonStr # UnsetJSON
              THEN FromJsonTexts(dbJsonStr, permJsonStr)
            ELSE IF envJsonStr # UnsetJSON /\ envJsonStr.t = "json"
              THEN Config("jsonenv",
                          IF DOMAIN UnmarshalDatabases(envJsonStr.databases) # {}
                            THEN UnmarshalDatabases(envJsonStr.databases)
                            ELSE DefaultDatabases,
                          UnmarshalPermission(envJsonStr.permission))
            ELSE NoConfig
       ELSE FromJsonTexts(databasesEnv, permissionEnv)

\* the first value that is set
FirstSet(a, b) == IF a # <<>> THEN a ELSE b

\* LoadConfigFromEnv of part_002
part002_LoadConfigFromEnv(env) ==
  IF loadConfigFromJsonEnv(env) # NoConfig
    THEN loadConfigFromJsonEnv(env)
  ELSE
    LET host == Getenv(env, "MYSQL_HOST")
        portStr == Getenv(env, "MYSQL_PORT")
        port == IF portStr # <<>> /\ ~Atoi(portStr).err /\ Atoi(portStr).n > 0
                  THEN Atoi(portStr).n ELSE 3306
        user == Getenv(env, "MYSQL_USER")
        pass == FirstSet(Getenv(env, "MYSQL_PASS"), Getenv(env, "MYSQL_PASSWORD"))
        dbName == FirstSet(Getenv(env, "MYSQL_DB"), Getenv(env, "DEFAULT_DATABASE"))
        base == DefaultDatabases["default"]
    IN IF host = <<>> /\ user = <<>>
         THEN NoConfig
         ELSE Config("env",
                [l \in {"default"} |->
                   DBConfig(IF host # <<>> THEN host ELSE base.Host,
                            port,
                            IF user # <<>> THEN user ELSE base.User,
                            IF pass # <<>> THEN pass ELSE base.Password,
                            IF dbName # <<>> THEN dbName ELSE base.DBName)],
                [AllowQuery |-> TRUE,
                 AllowInsert |-> parseBoolEnv(FirstSet(Getenv(env, "ALLOW_INSERT_OPERATION"),
                                                       Getenv(env, "ALLOW_INSERT")), FALSE),
                 AllowUpdate |-> parseBoolEnv(FirstSet(Getenv(env, "ALLOW_UPDATE_OPERATION"),
                                                       Getenv(env, "ALLOW_UPDATE")), FALSE),
                 AllowDelete |-> parseBoolEnv(FirstSet(Getenv(env, "ALLOW_DELETE_OPERATION"),
                                                       Getenv(env, "ALLOW_DELETE")), FALSE)])

\* LoadConfigFromMCPEnv of part_002 (Port is left at zero when
\* env.databases.default.port is not a positive number)
LoadConfigFromMCPEnv(env) ==
  IF Getenv(env, "env.databases.default.host") = <<>>
    THEN NoConfig
    ELSE LET portStr == Getenv(env, "env.databases.default.port") IN
      Config("mcpenv",
        [l \in {"default"} |->
           DBConfig(Getenv(env, "env.databases.default.host"),
                    IF portStr # <<>> /\ ~Atoi(portStr).err /\ Atoi(portStr).n > 0
                      THEN Atoi(portStr).n ELSE 0,
                    Getenv(env, "env.databases.default.user"),
                    Getenv(env, "env.databases.default.password"),
                    Getenv(env, "env.databases.default.dbname"))],
        [AllowQuery |-> parseBoolEnv(Getenv(env, "env.permission.allow_query"), TRUE),
         AllowInsert |-> parseBoolEnv(Getenv(env, "env.permission.allow_insert"), FALSE),
         AllowUpdate |-> parseBoolEnv(Getenv(env, "env.permission.allow_update"), FALSE),
         AllowDelete |-> parseBoolEnv(Getenv(env, "env.permission.allow_delete"), FALSE)])

\* the part of LoadConfig that looks at the environment: the configuration
\* it returns, or none
FromEnvironment(env) ==
  IF binary = "part_002"
    THEN IF part002_LoadConfigFromEnv(env) # NoConfig
           THEN part002_LoadConfigFromEnv(env)
           ELSE LoadConfigFromMCPEnv(env)
    ELSE LoadConfigFromEnv(env)

\* the part of LoadConfig that looks at the file
FromFile(file) ==
  CASE file.t = "missing"    -> DefaultConfig
    [] file.t = "unreadable" -> [t |-> "error", err |-> "ReadFile"]
    [] file.t = "garbage"    -> [t |-> "error", err |-> "Unmarshal"]
    [] file.t = "json" ->
         Config("file",
                IF DOMAIN UnmarshalDatabases(file.databases) = {}
                  THEN DefaultDatabases
                  ELSE UnmarshalDatabases(file.databases),
                UnmarshalPermission(file.permission))

\* the environment main starts in: the eight variables of the README, each
\* unset or set, and for part_002 one of a few settings of its other
\* variables
TextH == <<"h">>

TextYES == <<"Y","E","S">>

Textno == <<"n","o">>

PlainEnvironments ==
  [{"MYSQL_HOST", "MYSQL_USER", "MYSQL_PASS", "DEFAULT_DATABASE"} -> {Unset, TextH}]

PortEnvironments == [{"MYSQL_PORT"} -> {Unset, <<"3","3","0","7">>}]

FlagEnvironments ==
  [{"ALLOW_INSERT", "ALLOW_UPDATE", "ALLOW_DELETE"} -> {Unset, TextYES, Textno}]

OtherEnvironments ==
  { <<>>,
    [n \in {"permission"} |-> PermissionDoc("absent", "absent", "absent", "absent")],
    [n \in {"permission"} |-> PermissionDoc("absent", "true", "absent", "absent")],
    [n \in {"env"} |-> [t |-> "json", databases |-> Absent, permission |-> Absent]],
    [n \in {"env.databases.default.host"} |-> TextH],
    [n \in {"env.databases.default.host", "env.permission.allow_query"} |->
       IF n = "env.permission.allow_query" THEN Textno ELSE TextH] }

Environments ==
  {a @@ b @@ c @@ d :
     a \in PlainEnvironments, b \in PortEnvironments, c \in FlagEnvironments,
     d \in IF binary = "part_002" THEN OtherEnvironments ELSE {<<>>}}

\* the configuration file: missing, not readable, not JSON, or a JSON
\* object with or without its members
FileDatabases(label) ==
  [t |-> "object",
   entries |-> [l \in {label} |-> DBConfig(<<"f">>, 3306, <<"u">>, <<>>, <<"d">>)]]

PermissionDocs ==
  { PermissionDoc("absent", "absent", "absent", "absent"),
    PermissionDoc("true", "true", "true", "absent"),
    PermissionDoc("absent", "true", "false", "false"),
    PermissionDoc("true", "false", "false", "true") }

ConfigFiles ==
  {[t |-> k] : k \in {"missing", "unreadable", "garbage"}}
    \cup {[t |-> "json", databases |-> d, permission |-> p] :
            d \in {Absent, FileDatabases("default"), FileDatabases("other")},
            p \in {Absent} \cup PermissionDocs}

\* main is about to call LoadConfig
InitConfig ==
  /\ binary \in {"jsonrpc", "part_002"}
  /\ perm = QueryOnly
  /\ configured = {}
  /\ connections = {}
  /\ opened = {}
  /\ startErr = Nil
  /\ logEnabled = FALSE
  /\ writerOK = TRUE
  /\ pc = "LoadConfig"
  /\ lastRead = "none"
  /\ dropped = FALSE
  /\ runErr = FALSE
  /\ exitStatus = Nil
  /\ request = NoRequest
  /\ handler = NoHandler
  /\ resp = <<>>
  /\ logged = <<>>
  /\ writes = 0
  /\ gwerr = Nil
  /\ calls = NoCalls
  /\ ret = NoReturn
  /\ cursor = NoUnit
  /\ rowset = NoUnit
  /\ environ \in Environments
  /\ configFile \in ConfigFiles
  /\ loaded = NoUnit
  /\ stdin = "none"

\* the variables LoadConfig leaves alone
outsideConfig ==
  <<binary, connections, opened, startErr, logEnabled, writerOK, lastRead,
    dropped, runErr, exitStatus, perRequest, cursor, rowset, environ,
    configFile, stdin>>

\* LoadConfig returns the configuration it built from the environment, or
\* goes on to the file
TryEnvironment ==
  /\ pc = "LoadConfig"
  /\ \E c \in {FromEnvironment(environ)} :
       IF c # NoConfig
         THEN /\ pc' = "loaded"
              /\ loaded' = c
              /\ perm' = c.Permission
              /\ configured' = DOMAIN c.Databases
         ELSE /\ pc' = "Stat"
              /\ UNCHANGED <<loaded, perm, configured>>
  /\ UNCHANGED outsideConfig

\* LoadConfig returns DefaultConfig for a missing file, the error of
\* ReadFile or Unmarshal, or the decoded file
TryFile ==
  /\ pc = "Stat"
  /\ \E c \in {FromFile(configFile)} :
       /\ loaded' = c
       /\ IF c.t = "error"
            THEN /\ pc' = "failed"
                 /\ UNCHANGED <<perm, configured>>
            ELSE /\ pc' = "loaded"
                 /\ perm' = c.Permission
                 /\ configured' = DOMAIN c.Databases
  /\ UNCHANGED outsideConfig

NextConfig == TryEnvironment \/ TryFile

SpecConfig == InitConfig /\ [][NextConfig]_vars

\* one of the environment variables the README documents is set
DocumentedEnv ==
  {"MYSQL_HOST", "MYSQL_PORT", "MYSQL_USER", "MYSQL_PASS", "DEFAULT_DATABASE",
   "ALLOW_INSERT", "ALLOW_UPDATE", "ALLOW_DELETE"}

AnyDocumentedEnvSet == \E n \in DocumentedEnv : environ[n] # Unset

\* LoadConfig has returned
ConfigReturned == pc \in {"loaded", "failed"}

\* C23: LoadConfig gives the environment precedence over the file: when any
\* of MYSQL_HOST, MYSQL_PORT, MYSQL_USER, MYSQL_PASS, DEFAULT_DATABASE,
\* ALLOW_INSERT, ALLOW_UPDATE, ALLOW_DELETE is set, the configuration
\* returned is built from the environment and the file is not used; the file
\* is used only when none of them is set.
C23_EnvironmentBeforeFile ==
  (binary = "jsonrpc" /\ ConfigReturned) =>
    /\ AnyDocumentedEnvSet =>
         /\ loaded.t = "config"
         /\ loaded.source = "env"
         /\ loaded.Permission.AllowInsert = (environ["ALLOW_INSERT"] = TextYES)
         /\ loaded.Permission.AllowUpdate = (environ["ALLOW_UPDATE"] = TextYES)
         /\ loaded.Permission.AllowDelete = (environ["ALLOW_DELETE"] = TextYES)
    /\ ~AnyDocumentedEnvSet => (loaded.t = "error" \/ loaded.source \in {"file", "default"})

\* the file or environment text that supplies the permission flags of the
\* configuration returned, and whether it supplies the flag
FlagSupplied(member, variable) ==
  CASE loaded.source = "default" -> FALSE
    [] loaded.source = "file" ->
         configFile.permission # Absent /\ configFile.permission[member] # "absent"
    [] loaded.source = "env" -> variable \in DOMAIN environ /\ environ[variable] # Unset
    [] loaded.source = "jsonenv" ->
         /\ "permission" \in DOMAIN environ
         /\ environ["permission"][member] # "absent"
    [] loaded.source = "mcpenv" ->
         /\ ("env.permission." \o member) \in DOMAIN environ
         /\ environ["env.permission." \o member] # Unset

\* C24: the permission defaults are query-only on every configuration path:
\* a flag that is not supplied (no file; a file that omits `permission` or
\* one of its members; an environment that omits ALLOW_* or the permission
\* JSON) is loaded as allowQuery = true, allowInsert = allowUpdate =
\* allowDelete = false.
C24_DefaultsQueryOnly ==
  (pc = "loaded") =>
    /\ ~FlagSupplied("allow_query", "ALLOW_QUERY") => loaded.Permission.AllowQuery
    /\ ~FlagSupplied("allow_insert", "ALLOW_INSERT") => ~loaded.Permission.AllowInsert
    /\ ~FlagSupplied("allow_update", "ALLOW_UPDATE") => ~loaded.Permission.AllowUpdate
    /\ ~FlagSupplied("allow_delete", "ALLOW_DELETE") => ~loaded.Permission.AllowDelete

\* ========================================================= interactive loop
\* MySQLMCPServer.Run of cmd/ai2mysql-mcp-server/main.go (binary
\* "interactive"): a prompt loop that reads with fmt.Scanln and hands what it
\* read to handleSQL.  stdin is the text standard input still holds.
MaxLines == 2

Newline == "\n"

\* the characters Scanln skips around a token on the same line
Blanks == {" ", "\t"}

SkipBlanks(s) ==
  LET n == CHOOSE k \in 0..Len(s) :
             /\ \A i \in 1..k : s[i] \in Blanks
             /\ k < Len(s) => s[k + 1] \notin Blanks
  IN SubSeq(s, n + 1, Len(s))

\* the length of the token at the head of s: the characters before the
\* first white space
TokenLen(s) ==
  CHOOSE k \in 0..Len(s) :
    /\ \A i \in 1..k : s[i] \notin Spaces
    /\ k < Len(s) => s[k + 1] \in Spaces

\* fmt.Scanln(&sql) on the text s: the value left in sql and the text left
\* on standard input.  At end of input, and on an empty line, sql keeps its
\* zero value; after the token Scanln reads up to the newline or up to and
\* including the first character that is not white space.  The error Scanln
\* returns is not looked at.
Scanln(s) ==
  LET t == SkipBlanks(s) IN
    IF t = <<>> THEN [sql |-> <<>>, rest |-> <<>>]
    ELSE IF t[1] = Newline THEN [sql |-> <<>>, rest |-> Tail(t)]
    ELSE LET u == SkipBlanks(SubSeq(t, TokenLen(t) + 1, Len(t))) IN
      [sql |-> SubSeq(t, 1, TokenLen(t)),
       rest |-> IF u = <<>> THEN <<>> ELSE Tail(u)]

\* MySQLMCPServer.trimSQL
trimSQL(sql) == TrimSpace(sql)

\* MySQLMCPServer.isQuerySQL
isQuerySQL(sql) ==
  /\ Len(trimSQL(sql)) >= 6
  /\ SubSeq(trimSQL(sql), 1, 6) \in {kwSELECT, ToLower(kwSELECT)}

\* the token that ends the loop
kwExit == <<"e","x","i","t">>

\* the lines a user types
InputLines ==
  {w \o <<Newline>> :
     w \in {kwExit, kwSELECT, ToLower(kwSELECT), MixCase(kwSELECT), ToLower(kwSHOW),
            kwDESCRIBE, kwINSERT, <<" ">> \o kwSELECT \o <<" ","1">>, <<>>}}

RECURSIVE Flatten(_)
Flatten(ls) == IF ls = <<>> THEN <<>> ELSE Head(ls) \o Flatten(Tail(ls))

\* standard input: up to MaxLines lines, then end of input
Streams == {Flatten(ls) : ls \in UNION {[1..n -> InputLines] : n \in 0..MaxLines}}

\* NewMySQLMCPServer has returned and Run prints its first prompt
InitInteractive ==
  /\ binary = "interactive"
  /\ perm \in {QueryOnly, [AllowQuery |-> TRUE, AllowInsert |-> TRUE,
                            AllowUpdate |-> TRUE, AllowDelete |-> TRUE]}
  /\ configured = {"default"}
  /\ connections = {"default"}
  /\ opened = {"default"}
  /\ startErr = Nil
  /\ logEnabled = FALSE
  /\ writerOK = TRUE
  /\ pc = "prompt"
  /\ lastRead = "none"
  /\ dropped = FALSE
  /\ runErr = FALSE
  /\ exitStatus = Nil
  /\ request = NoRequest
  /\ handler = NoHandler
  /\ resp = <<>>
  /\ logged = <<>>
  /\ writes = 0
  /\ gwerr = Nil
  /\ calls = NoCalls
  /\ ret = NoReturn
  /\ cursor = NoUnit
  /\ rowset = NoUnit
  /\ environ = NoUnit
  /\ configFile = NoUnit
  /\ loaded = NoUnit
  /\ stdin \in Streams

\* the variables the interactive loop leaves alone
outsideInteractive ==
  <<binary, perm, configured, connections, opened, startErr, logEnabled,
    writerOK, dropped, runErr, exitStatus, resp, logged, writes, ret,
    cursor, rowset, environ, configFile, loaded>>

\* fmt.Print("> "); fmt.Scanln(&sql)
ReadToken ==
  /\ pc = "prompt"
  /\ pc' = "scanned"
  /\ lastRead' = IF stdin = <<>> THEN "eof" ELSE "line"
  /\ request' = [kind |-> "sql", sql |-> Scanln(stdin).sql]
  /\ stdin' = Scanln(stdin).rest
  /\ handler' = NoHandler
  /\ gwerr' = Nil
  /\ calls' = NoCalls
  /\ UNCHANGED outsideInteractive

\* if sql == "exit" { break }; return nil
ExitToken ==
  /\ pc = "scanned"
  /\ request.sql = kwExit
  /\ pc' = "returned"
  /\ UNCHANGED <<outsideInteractive, lastRead, request, stdin, handler, gwerr, calls>>

\* s.handleSQL(sql), and back to the prompt
handleSQL(bres) ==
  /\ pc = "scanned"
  /\ request.sql # kwExit
  /\ pc' = "prompt"
  /\ IF Len(request.sql) = 0
       THEN UNCHANGED <<handler, gwerr, calls>>
     ELSE IF isQuerySQL(request.sql)
       THEN \E r \in {Query("default", request.sql, bres)} :
              /\ handler' = "Query"
              /\ gwerr' = r.err
              /\ calls' = r.calls
       ELSE \E r \in {Execute("default", request.sql, bres)} :
              /\ handler' = "Execute"
              /\ gwerr' = r.err
              /\ calls' = r.calls
  /\ UNCHANGED <<outsideInteractive, lastRead, request, stdin>>

NextInteractive ==
  \/ ReadToken
  \/ ExitToken
  \/ \E bres \in {"ok", "error"} : handleSQL(bres)

SpecInteractive == InitInteractive /\ [][NextInteractive]_vars

\* the loop is a sequential program that is never blocked for good: Scanln
\* returns at end of input, and a gateway call returns
SpecInteractiveFair == SpecInteractive /\ WF_vars(NextInteractive)

\* ============================================================ properties
Handled == pc = "handled"

\* the request is a tool call of the JSON-RPC server that names a tool
JsonCall ==
  /\ binary = "jsonrpc"
  /\ Handled
  /\ request.kind = "envelope"
  /\ request.method \in CallMethods
  /\ request.params.t = "object"
  /\ request.params.name.t = "string"

CallName == request.params.name.s

\* the member that carries the tool arguments under the request's method
AcceptedArgs ==
  IF request.method = "tools/call"
    THEN request.params.arguments
    ELSE request.params.params

GoCall(tool) == binary = "gomcp" /\ Handled /\ request.tool = tool

\* a statement was sent to the execute tool / to the query tool
SentToExecute ==
  \/ JsonCall /\ CallName = "mcp_mysql_execute"
       /\ AcceptedArgs.t = "object" /\ AcceptedArgs.sql.t = "string"
  \/ GoCall("mysql_execute") /\ request.arguments.sql.t = "string"

SentToQuery ==
  \/ JsonCall /\ CallName = "mcp_mysql_query"
       /\ AcceptedArgs.t = "object" /\ AcceptedArgs.sql.t = "string"
  \/ GoCall("mysql_query") /\ request.arguments.sql.t = "string"

SentSQL ==
  IF binary = "jsonrpc" THEN AcceptedArgs.sql.chars ELSE request.arguments.sql.chars

\* the statement begins with the keyword, in any letter case, after its
\* leading white space
Begins(q, kw) ==
  \E n \in 0..Len(q) :
    /\ \A i \in 1..n : q[i] \in Spaces
    /\ Len(q) >= n + Len(kw)
    /\ \A i \in 1..Len(kw) : UpperCh(q[n + i]) = kw[i]

IsReadStatement(q) == \E kw \in {kwSELECT, kwSHOW, kwDESCRIBE} : Begins(q, kw)

\* the line written for the request carries an error with this code
ErrorCode(code) ==
  /\ Len(resp) = 1
  /\ "error" \in DOMAIN resp[1]
  /\ resp[1]["error"].code = code

ErrorMessage(message) ==
  /\ Len(resp) = 1
  /\ "error" \in DOMAIN resp[1]
  /\ resp[1]["error"].message = message

\* the call did not succeed
CallFailed ==
  IF binary = "jsonrpc"
    THEN Len(resp) = 1 /\ "error" \in DOMAIN resp[1]
    ELSE ret.outcome # "result"

ExecInvoked == \E i \in DOMAIN calls : calls[i].op = "Exec"

QueryInvoked == \E i \in DOMAIN calls : calls[i].op = "Query"

\* C1: a statement sent to the execute tool that begins with DROP or
\* TRUNCATE fails, and the backend Exec is not invoked, whatever the four
\* permission flags are.
C1_DropTruncateNeverExecuted ==
  (SentToExecute /\ (Begins(SentSQL, kwDROP) \/ Begins(SentSQL, kwTRUNCATE)))
    => (CallFailed /\ calls = NoCalls)

\* C2: a statement sent to the query tool reaches the backend only if it
\* begins with SELECT, SHOW or DESCRIBE; with allowInsert, allowUpdate and
\* allowDelete all false no INSERT, UPDATE, DELETE, DROP or TRUNCATE
\* statement reaches the backend through the query tool.
C2_QueryToolOnlyReads ==
  /\ SentToQuery => \A i \in DOMAIN calls : IsReadStatement(calls[i].sql)
  /\ (SentToQuery /\ ~perm.AllowInsert /\ ~perm.AllowUpdate /\ ~perm.AllowDelete)
       => \A i \in DOMAIN calls :
            \A kw \in {kwINSERT, kwUPDATE, kwDELETE, kwDROP, kwTRUNCATE} :
              ~Begins(calls[i].sql, kw)

\* the permission flag that governs a statement kind
FlagOf(kw) ==
  CASE kw = kwINSERT -> perm.AllowInsert
    [] kw = kwUPDATE -> perm.AllowUpdate
    [] kw = kwDELETE -> perm.AllowDelete

\* the permission-denied failure of a statement kind
PermissionDenied(kw) ==
  IF binary = "jsonrpc"
    THEN /\ ErrorCode(-32000)
         /\ ErrorMessage(CASE kw = kwINSERT -> "InsertNotAllowed"
                           [] kw = kwUPDATE -> "UpdateNotAllowed"
                           [] kw = kwDELETE -> "DeleteNotAllowed")
    ELSE /\ ret.outcome = "error"
         /\ ret.err = (CASE kw = kwINSERT -> "no INSERT permission"
                         [] kw = kwUPDATE -> "no UPDATE permission"
                         [] kw = kwDELETE -> "no DELETE permission")

\* C3 as stated: for a statement sent to the execute tool that begins with
\* INSERT, UPDATE or DELETE, Exec is invoked iff the matching flag is true,
\* and with the flag false the call fails with permission denied and
\* nothing reaches the backend.
C3_ExecIffFlag ==
  \A kw \in {kwINSERT, kwUPDATE, kwDELETE} :
    (SentToExecute /\ Begins(SentSQL, kw)) =>
      /\ ExecInvoked <=> FlagOf(kw)
      /\ ~FlagOf(kw) => (PermissionDenied(kw) /\ calls = NoCalls)

\* C3 amended: for a statement sent to the execute tool that begins with
\* INSERT, UPDATE or DELETE, Exec is invoked with that statement iff the
\* matching flag is true and the connection "default" is configured; with
\* the flag false the call fails with permission denied and nothing reaches
\* the backend, whatever the other three flags are.
C3_ExecIffFlagAndConnection ==
  \A kw \in {kwINSERT, kwUPDATE, kwDELETE} :
    (SentToExecute /\ Begins(SentSQL, kw)) =>
      /\ (calls = <<BackendCall("Exec", SentSQL)>>)
           <=> (FlagOf(kw) /\ "default" \in connections)
      /\ calls # NoCalls => calls = <<BackendCall("Exec", SentSQL)>>
      /\ ~FlagOf(kw) => (PermissionDenied(kw) /\ calls = NoCalls)

\* an UPDATE is refused for want of allowUpdate while the other three flags
\* are true
C3_Witness ==
  /\ SentToExecute
  /\ Begins(SentSQL, kwUPDATE)
  /\ perm = [AllowQuery |-> TRUE, AllowInsert |-> TRUE,
             AllowUpdate |-> FALSE, AllowDelete |-> TRUE]
  /\ binary = "jsonrpc"
  /\ PermissionDenied(kwUPDATE)
  /\ calls = NoCalls

\* the id of the request, as decoded, and the id member of a written line
RequestId == IF request.id \in {"absent", "null"} THEN Nil ELSE request.id

ResponseId(line) == IF "id" \in DOMAIN line THEN line["id"].s ELSE Nil

QueryToolCall == JsonCall /\ CallName = "mcp_mysql_query"

\* C4 as stated: for a read statement sent to the query tool, Query is
\* invoked iff allowQuery is true; with allowQuery false every query-tool
\* call is answered with error -32000 under the request's id and the
\* backend is not touched.
C4_QueryIffAllowQuery ==
  /\ (QueryToolCall /\ SentToQuery /\ IsReadStatement(SentSQL))
       => (QueryInvoked <=> perm.AllowQuery)
  /\ (QueryToolCall /\ ~perm.AllowQuery)
       => (ErrorCode(-32000) /\ ResponseId(resp[1]) = RequestId /\ calls = NoCalls)

\* C4 amended: for a read statement sent to the query tool, Query is
\* invoked with that statement iff allowQuery is true and the connection
\* "default" is configured, whatever allowInsert, allowUpdate and
\* allowDelete are; with allowQuery false every query-tool call is answered
\* with error -32000 under the request's id and the backend is not touched.
C4_QueryIffAllowQueryAndConnection ==
  /\ (QueryToolCall /\ SentToQuery /\ IsReadStatement(SentSQL))
       => /\ (calls = <<BackendCall("Query", SentSQL)>>)
               <=> (perm.AllowQuery /\ "default" \in connections)
          /\ calls # NoCalls => calls = <<BackendCall("Query", SentSQL)>>
  /\ (QueryToolCall /\ ~perm.AllowQuery)
       => (ErrorCode(-32000) /\ ResponseId(resp[1]) = RequestId /\ calls = NoCalls)

\* a read statement is refused for want of allowQuery while the other
\* three flags are true
C4_Witness ==
  /\ QueryToolCall
  /\ SentToQuery
  /\ IsReadStatement(SentSQL)
  /\ perm = [AllowQuery |-> FALSE, AllowInsert |-> TRUE,
             AllowUpdate |-> TRUE, AllowDelete |-> TRUE]
  /\ ErrorCode(-32000)
  /\ ResponseId(resp[1]) = "7"
  /\ calls = NoCalls

\* the line read parses as an envelope that carries an id
RequestWithId ==
  /\ binary = "jsonrpc"
  /\ Handled
  /\ request.kind = "envelope"
  /\ request.id \notin {"absent", "null"}

\* the line read parses as an envelope with a method and no id
Notification ==
  /\ binary = "jsonrpc"
  /\ Handled
  /\ request.kind = "envelope"
  /\ request.id = "absent"
  /\ request.method # ""

\* C5: for every line that parses as an envelope carrying an id, whatever
\* its method, exactly one response line is written before the next line is
\* read.
C5_OneResponsePerRequest == RequestWithId => Len(resp) = 1

\* C6: a notification, an envelope with a method and no id, produces no
\* line on the output, for every method.
C6_NotificationsSilent == Notification => resp = <<>>

C8_ParseErrorIdNull ==
  (binary = "jsonrpc" /\ Handled /\ request.kind \in {"empty", "garbage"})
    => /\ ErrorCode(-32700)
       /\ "id" \in DOMAIN resp[1]
       /\ resp[1]["id"].s = Nil
       /\ pc # "returned"

ToolNotFound == ErrorCode(-32601) /\ ErrorMessage("ToolNotSupported")

NamedCall(names) ==
  JsonCall /\ request.method = "tools/call" /\ CallName \in names

Variant(method, member) ==
  LET a == IF request.params.arguments # Absent
             THEN request.params.arguments
             ELSE request.params.params
  IN [request EXCEPT
        !.method = method,
        !.params = [t |-> "object", name |-> request.params.name,
                    arguments |-> IF member = "arguments" THEN a ELSE Absent,
                    params |-> IF member = "params" THEN a ELSE Absent]]

\* handling the line gives what the state records for the request read
SameOutcome(line) ==
  \E bres \in BackendResults :
    RunLine(line, bres)
      = GatewayFailed(handler, Sent(resp, logged, writes), calls, gwerr)

\* the request is a tool call that carries a statement in either member
CallWithSQL ==
  /\ JsonCall
  /\ \/ request.params.arguments.t = "object" /\ request.params.arguments.sql.t = "string"
     \/ request.params.params.t = "object" /\ request.params.params.sql.t = "string"

\* C10 as stated: under either method name the arguments are accepted in
\* both shapes: the four method / shape combinations with the same tool
\* name and the same sql give the same dispatch and the same outcome.
C10_FourCombinationsAgree ==
  CallWithSQL =>
    \A method \in CallMethods, member \in {"arguments", "params"} :
      SameOutcome(Variant(method, member))

\* C10 amended: tools/call takes the arguments from {name, arguments} and
\* mcp/callTool from {name, params}; these two combinations with the same
\* tool name and the same sql give the same dispatch and the same outcome.
C10_MatchingCombinationsAgree ==
  (CallWithSQL /\ AcceptedArgs # Absent) =>
    /\ SameOutcome(Variant("tools/call", "arguments"))
    /\ SameOutcome(Variant("mcp/callTool", "params"))

\* an mcp/callTool call in the {name, params} shape reached the backend
C10_Witness ==
  /\ CallWithSQL
  /\ request.method = "mcp/callTool"
  /\ AcceptedArgs # Absent
  /\ calls # NoCalls
  /\ SameOutcome(Variant("tools/call", "arguments"))

\* the arguments of a tool call carry no statement: they are absent, or an
\* object without a string under "sql"
MalformedArgs(a) ==
  \/ a.t = "absent"
  \/ a.t = "object" /\ a.sql.t # "string"

\* C11: for both tools and every setting of the permission flags, a call
\* whose arguments lack the sql key, or whose sql is not a string, or whose
\* arguments are absent, is rejected with invalid params (-32602) and the
\* backend is not invoked.
C11_MalformedArgsRejected ==
  /\ (JsonCall /\ CallName \in {"mcp_mysql_query", "mcp_mysql_execute"}
        /\ MalformedArgs(AcceptedArgs))
       => (ErrorCode(-32602) /\ calls = NoCalls)
  /\ (binary = "gomcp" /\ Handled /\ MalformedArgs(request.arguments))
       => (ret.outcome = "error" /\ calls = NoCalls)

KnownMethods == {"initialize", "initialized", "tools/list", "tools/call", "mcp/callTool"}

\* the line read is an envelope whose method the server does not know
UnknownMethodRequest ==
  /\ binary = "jsonrpc"
  /\ Handled
  /\ request.kind = "envelope"
  /\ request.method \notin KnownMethods

\* C12: a request whose method is none of initialize, initialized,
\* tools/list, tools/call, mcp/callTool is answered with error -32601 whose
\* data is the method string; a tool call naming a tool the server does not
\* know is answered with -32601 too; in both cases the loop goes on to the
\* next line.
C12_UnknownMethodOrTool ==
  /\ UnknownMethodRequest
       => /\ ErrorCode(-32601)
          /\ resp[1]["error"].data = request.method
          /\ pc = "handled"
  /\ (JsonCall /\ CallName \notin {"mcp_mysql_query", "mcp_mysql_execute"})
       => /\ ErrorCode(-32601)
          /\ resp[1]["error"].data = CallName
          /\ calls = NoCalls
          /\ pc = "handled"

\* a ping request is refused as an unknown method
C12_Witness ==
  /\ UnknownMethodRequest
  /\ request.method = "ping"
  /\ request.id = "7"
  /\ ErrorCode(-32601)
  /\ resp[1]["error"].data = "ping"

\* the loop of MCPServer.Run, in either JSON-RPC server
InLoop == binary \in {"jsonrpc", "server"}

\* C13: responses leave in the order the requests are read: a line is read
\* only when the request before it has been handled and nothing is in
\* flight, and when its handling ends its own response (if any) has been
\* written and at most one statement went to the backend for it.  (Every
\* read starts from a state with nothing pending, so the order over a
\* sequence of requests follows by induction from this step.)
C13_OneRequestAtATime ==
  [][(InLoop /\ pc' = "handled") =>
       /\ pc = "waiting"
       /\ request = NoRequest /\ resp = <<>> /\ calls = NoCalls /\ writes = 0
       /\ Len(resp') <= 1
       /\ Len(calls') <= 1
       /\ \A i \in DOMAIN resp' : ResponseId(resp'[i]) = RequestId']_vars

\* a tool call was answered after its one statement went to the backend
C13_Witness ==
  /\ InLoop
  /\ Handled
  /\ request.kind = "envelope"
  /\ Len(calls) = 1
  /\ Len(resp) = 1
  /\ ResponseId(resp[1]) = "7"

\* the message of a permission failure of DBManager.Execute
DeniedMessage(kw) ==
  CASE kw = kwINSERT -> "InsertNotAllowed"
    [] kw = kwUPDATE -> "UpdateNotAllowed"
    [] kw = kwDELETE -> "DeleteNotAllowed"

\* C14: every failure the Database Gateway returns to a tool handler
\* (permission denied, connection not found, backend error) is answered
\* with an error envelope with code -32000 whose message is the failure's
\* description, under the request's id, and the loop goes on.
C14_GatewayFailureSurfaced ==
  /\ (binary = "jsonrpc" /\ Handled /\ gwerr # Nil)
       => /\ ErrorCode(-32000)
          /\ ErrorMessage(gwerr)
          /\ ResponseId(resp[1]) = RequestId
          /\ pc = "handled"
  /\ \A kw \in {kwINSERT, kwUPDATE, kwDELETE} :
       (binary = "jsonrpc" /\ SentToExecute /\ Begins(SentSQL, kw) /\ ~FlagOf(kw))
         => gwerr = DeniedMessage(kw)
  /\ (binary = "jsonrpc" /\ SentToExecute /\ "default" \notin connections
        /\ \A kw \in {kwINSERT, kwUPDATE, kwDELETE} : ~Begins(SentSQL, kw))
       => gwerr = "DBNotConfigured"
  /\ (binary = "jsonrpc" /\ Handled /\ calls # NoCalls /\ CallFailed
        /\ ~ErrorMessage("MarshalFailed"))
       => gwerr = "BackendError"

\* the backend refused a statement and the caller was told so
C14_Witness ==
  /\ binary = "jsonrpc"
  /\ Handled
  /\ gwerr = "BackendError"
  /\ calls # NoCalls
  /\ ErrorCode(-32000)
  /\ ErrorMessage("BackendError")
  /\ ResponseId(resp[1]) = "7"

\* C15: the run loop ends in exactly two ways: on end-of-stream Run returns
\* nil (and the process exits with status 0), on any other read failure Run
\* returns an error that main reports (exit status 1); no request content,
\* handler failure or write failure ends it: after every request the loop
\* reads again.
C15_LoopEndsOnlyOnRead ==
  /\ [](InLoop /\ pc = "returned"
          => (lastRead \in {"eof", "error"} /\ runErr = (lastRead = "error")))
  /\ [](InLoop /\ pc = "exited" => exitStatus = IF lastRead = "error" THEN 1 ELSE 0)
  /\ [][(InLoop /\ pc = "handled") => pc' = "waiting"]_vars
  /\ [][(InLoop /\ pc # "returned" /\ pc' = "returned")
          => (pc = "waiting" /\ request = NoRequest)]_vars

\* a response could not be written and the loop is still running
C15_Witness ==
  /\ InLoop
  /\ Handled
  /\ ~writerOK
  /\ writes = 1
  /\ resp = <<>>
  /\ gwerr = "BackendError"

\* C16: a failure to write or flush a response does not end the loop and is
\* put in the operator's log, and for each request the response writer is
\* used at most once.
C16_WriteFailureLoggedOnce ==
  /\ (InLoop /\ Handled /\ ~writerOK /\ writes > 0)
       => /\ \E i \in DOMAIN logged : logged[i] = "WriteResponseFailed"
          /\ pc = "handled"
  /\ (InLoop /\ Handled) => writes <= 1

\* C17: gateway construction is all or nothing: when opening or pinging one
\* configured connection fails there is no gateway, the process stops and
\* no request is ever read; the loop runs only with every configured
\* connection opened and pinged.
C17_GatewayAllOrNothing ==
  /\ startErr \in {"OpenFailed", "PingFailed"}
       => /\ pc = "aborted"
          /\ exitStatus = 1
          /\ connections = {}
          /\ lastRead = "none" /\ request = NoRequest /\ resp = <<>> /\ calls = NoCalls
  /\ pc \in {"waiting", "handled", "returned", "exited"}
       => /\ startErr = Nil
          /\ connections = configured
          /\ pc # "exited" => configured \subseteq opened

\* the ping of the second connection failed after the first was opened
C17_Witness ==
  /\ startErr = "PingFailed"
  /\ pc = "aborted"
  /\ configured = {"default", "other"}
  /\ Cardinality(opened) = 2
  /\ connections = {}

\* C18: every connection the gateway opened is closed when the process has
\* stopped, on every path: end-of-stream, a read failure in the loop, and a
\* gateway construction that failed after some connections were opened.
C18_AllClosedAtStop ==
  pc \in {"exited", "aborted"} => opened = {}

\* C19: handling requests never changes the configuration: from the moment
\* the loop starts the permission flags and the map from label to
\* connection keep their values, whatever the requests and their outcomes.
C19_ConfigurationFrozen ==
  [][(pc \in {"waiting", "handled", "returned"})
       => (perm' = perm /\ connections' = connections /\ configured' = configured)]_vars

\* a call failed for want of the connection "default" and the map still
\* has only the other label
C19_Witness ==
  /\ Handled
  /\ gwerr = "DBNotConfigured"
  /\ connections = {"other"}
  /\ ErrorCode(-32000)

\* the statement begins with none of the five gated keywords
OtherStatement(q) ==
  \A kw \in {kwINSERT, kwUPDATE, kwDELETE, kwDROP, kwTRUNCATE} : ~Begins(q, kw)

\* C20 as stated: a statement sent to the execute tool that begins with
\* none of INSERT, UPDATE, DELETE, DROP, TRUNCATE is passed to the backend
\* Exec whatever the four permission flags are.
C20_OtherStatementsPass ==
  (SentToExecute /\ OtherStatement(SentSQL))
    => calls = <<BackendCall("Exec", SentSQL)>>

\* C20 amended: such a statement is passed to the backend Exec, whatever
\* the four permission flags are, iff the connection "default" is
\* configured; without it the call fails and nothing reaches the backend.
C20_OtherStatementsPassOnDefault ==
  (SentToExecute /\ OtherStatement(SentSQL))
    => /\ (calls = <<BackendCall("Exec", SentSQL)>>) <=> ("default" \in connections)
       /\ "default" \notin connections => (CallFailed /\ calls = NoCalls)

\* a CREATE statement went to Exec with all four flags false
C20_Witness ==
  /\ SentToExecute
  /\ binary = "jsonrpc"
  /\ Begins(SentSQL, kwCREATE)
  /\ perm = [AllowQuery |-> FALSE, AllowInsert |-> FALSE,
             AllowUpdate |-> FALSE, AllowDelete |-> FALSE]
  /\ calls = <<BackendCall("Exec", SentSQL)>>

\* C21: when the connection label "default" is absent from the
\* configuration, every query call (allowQuery true) and every execute call
\* that passes the permission gate fails with connection-not-found, answered
\* with code -32000, and no backend handle is used.
C21_NoDefaultConnection ==
  /\ (SentToQuery /\ binary = "jsonrpc" /\ perm.AllowQuery
        /\ "default" \notin configured)
       => /\ gwerr = "DBNotConfigured"
          /\ ErrorCode(-32000)
          /\ ErrorMessage("DBNotConfigured")
          /\ calls = NoCalls
  /\ (SentToExecute /\ binary = "jsonrpc" /\ "default" \notin configured
        /\ \A kw \in {kwINSERT, kwUPDATE, kwDELETE} :
             Begins(SentSQL, kw) => FlagOf(kw))
       => /\ gwerr = "DBNotConfigured"
          /\ ErrorCode(-32000)
          /\ ErrorMessage("DBNotConfigured")
          /\ calls = NoCalls

\* an INSERT that the permissions allow finds no connection "default" while
\* the connection "other" is open
C21_Witness ==
  /\ SentToExecute
  /\ binary = "jsonrpc"
  /\ Begins(SentSQL, kwINSERT)
  /\ perm.AllowInsert
  /\ configured = {"other"}
  /\ connections = {"other"}
  /\ gwerr = "DBNotConfigured"
  /\ ErrorCode(-32000)
  /\ calls = NoCalls

\* the go-mcp handler turned the statement away before the backend
GoRejected ==
  \/ /\ GoCall("mysql_query")
     /\ request.arguments.sql.t = "string"
     /\ ~IsReadStatement(SentSQL)
  \/ /\ GoCall("mysql_execute")
     /\ request.arguments.sql.t = "string"
     /\ \/ Begins(SentSQL, kwDROP)
        \/ Begins(SentSQL, kwTRUNCATE)
        \/ \E kw \in {kwINSERT, kwUPDATE, kwDELETE} : Begins(SentSQL, kw) /\ ~FlagOf(kw)

\* C25: the go-mcp handlers handleQuery and handleExecute return an error
\* (they never panic) for every statement they reject, whatever its length,
\* statements shorter than 10 characters included, with logging enabled and
\* with logging disabled.
C25_RejectionsNeverPanic ==
  GoRejected => (ret.outcome = "error" /\ calls = NoCalls)

\* C26: a final request that is not terminated by a newline before
\* end-of-stream is still handled and answered: the loop returns without
\* having discarded bytes it read from standard input.
C26_UnterminatedLineHandled ==
  [](InLoop /\ lastRead = "eof" => ~dropped)

\* the tool entries a written reply advertises: the values of the object an
\* initialize reply carries, the elements of the array of a tools/list reply
Advertised(line) ==
  {line["result"].tools[k] : k \in DOMAIN line["result"].tools}

AdvertisedNames(line) == {e.name : e \in Advertised(line)}

\* a tools/call line that names the tool and carries a statement
CallLine(n) ==
  [kind |-> "envelope", id |-> "7", method |-> "tools/call",
   params |-> [t |-> "object", name |-> JName(n),
               arguments |-> [t |-> "object", sql |-> JSql(kwSELECT \o Operand)],
               params |-> Absent]]

\* tools/call finds a handler for the name
Callable(n) ==
  \A bres \in BackendResults :
    LET out == RunLine(CallLine(n), bres).out.written IN
      ~(Len(out) = 1 /\ "error" \in DOMAIN out[1] /\ out[1]["error"].code = -32601)

\* the reply the server writes to the other manifest request
OtherManifest ==
  RunLine([request EXCEPT !.method = IF request.method = "initialize"
                                       THEN "tools/list" ELSE "initialize"],
          "ok").out.written

ManifestReply ==
  /\ binary = "jsonrpc"
  /\ Handled
  /\ request.kind = "envelope"
  /\ request.method \in {"initialize", "tools/list"}
  /\ Len(resp) = 1
  /\ "result" \in DOMAIN resp[1]

\* C27: the tool names advertised in the initialize reply and in the
\* tools/list reply are exactly the names tools/call dispatches: every
\* advertised name is callable, every callable name is advertised, and the
\* two replies advertise the same names with the same input schema, which
\* requires a string `sql`.
C27_ManifestMatchesDispatch ==
  ManifestReply =>
    /\ AdvertisedNames(resp[1]) = {n \in ToolNames : Callable(n)}
    /\ \A e \in Advertised(resp[1]) :
         /\ e.inputSchema.required = <<"sql">>
         /\ e.inputSchema.properties.sql = "string"
    /\ Len(OtherManifest) = 1
    /\ Advertised(OtherManifest[1]) = Advertised(resp[1])
    /\ request.method = "initialize"
         => \A k \in DOMAIN resp[1]["result"].tools : resp[1]["result"].tools[k].name = k

\* a tools/list reply was written that advertises mcp_mysql_execute
C27_Witness ==
  /\ ManifestReply
  /\ request.method = "tools/list"
  /\ "mcp_mysql_execute" \in AdvertisedNames(resp[1])
  /\ Callable("mcp_mysql_execute")
  /\ ~Callable("mysql_execute")

\* C28: every line the server writes to standard output is a response
\* envelope: its `jsonrpc` member is "2.0", it has no `method` member, and
\* it has exactly one of `result` and `error`.
C28_OnlyResponseEnvelopes ==
  InLoop =>
    \A k \in DOMAIN resp :
      /\ "jsonrpc" \in DOMAIN resp[k]
      /\ resp[k]["jsonrpc"] = [t |-> "string", s |-> "2.0"]
      /\ "method" \notin DOMAIN resp[k]
      /\ ("result" \in DOMAIN resp[k]) # ("error" \in DOMAIN resp[k])

\* a result envelope was written for a query call, without a method member
C28_Witness ==
  /\ QueryToolCall
  /\ Len(resp) = 1
  /\ "result" \in DOMAIN resp[1]
  /\ "error" \notin DOMAIN resp[1]
  /\ "method" \notin DOMAIN resp[1]
  /\ resp[1]["jsonrpc"].s = "2.0"

\* C29: the interactive loop terminates when its input reaches
\* end-of-stream: once the input is exhausted Run eventually returns, it
\* does not iterate forever; it also returns when the token `exit` is read.
C29_LoopTerminates ==
  /\ (binary = "interactive" /\ stdin = <<>>) ~> (pc = "returned")
  /\ (binary = "interactive" /\ pc = "scanned" /\ request.sql = kwExit) ~> (pc = "returned")

\* handleSQL has routed a statement
Routed ==
  /\ binary = "interactive"
  /\ pc = "prompt"
  /\ request.kind = "sql"
  /\ Len(request.sql) > 0

\* C30: the interactive loop routes case-insensitively on the trimmed
\* text: a statement is sent to the gateway's Query if and only if it
\* begins with SELECT, SHOW or DESCRIBE in any letter case, and to Execute
\* otherwise.
C30_RoutingIgnoresCase ==
  Routed =>
    /\ handler = "Query" <=> IsReadStatement(request.sql)
    /\ handler = "Execute" <=> ~IsReadStatement(request.sql)

====
